---- MODULE Spec2Model ----
(***************************************************************************)
(* pynstal (PythonProjectManager): interpreter registry, project config,   *)
(* venv creation / removal and template installation.                      *)
(*                                                                         *)
(* Text values (paths, typed input) are sequences of one-character         *)
(* strings, so that os.path.abspath, str.startswith, str.strip, str.lower  *)
(* and int() are computed character by character as Python computes them.  *)
(* Optional values (Python None) are sequences of length at most one.      *)
(***************************************************************************)
EXTENDS Integers, Sequences, FiniteSets, TLC

VARIABLES
    disk,   \* interpreters.json                      (handle_data.py:24-41)
    proj,   \* ./.pynstal.json "default_interpreter"  (handle_data.py:72-107)
    fs,     \* files and directories that exist on disk
    mem,    \* the process's interpreters_data object (handle_data.py:60)
    pc,     \* "idle": no process; "run": module imported, command not yet run
    last,   \* observation of the last finished command
    inst,   \* one run of install_packages            (create_venv.py:150-224)
    tpl,    \* the user's templates.json              (main.py:191-227)
    executable, \* sys.executable of the running process, << >> when none runs
    other   \* a second process of the tool: its position, registry object
            \* and the observation of its last command

vars == <<disk, proj, fs, mem, pc, last, inst, tpl, executable, other>>

-----------------------------------------------------------------------------
(* Python values *)

None == << >>
Some(x) == <<x>>
Val(o) == o[1]

\* truthiness of an optional string: None and "" are both false
Truthy(o) == o # None /\ Val(o) # << >>

\* truthiness of an optional list: None and [] are both false
ListOf(o) == IF o = None THEN << >> ELSE Val(o)

Contains(s, x) == \E i \in 1..Len(s) : s[i] = x

RECURSIVE SelectNot(_, _)
\* [p for p in s if not p in drop]
SelectNot(s, drop) ==
    IF s = << >> THEN << >>
    ELSE IF Head(s) \in drop THEN SelectNot(Tail(s), drop)
         ELSE <<Head(s)>> \o SelectNot(Tail(s), drop)

\* list.pop(idx) for a 1-based position
RemoveAt(s, i) == SubSeq(s, 1, i - 1) \o SubSeq(s, i + 1, Len(s))

-----------------------------------------------------------------------------
(* str methods *)

StartsWith(s, pre) == Len(pre) <= Len(s) /\ SubSeq(s, 1, Len(pre)) = pre

LowerChar(c) ==
    CASE c = "Y" -> "y" [] c = "E" -> "e" [] c = "S" -> "s"
      [] c = "D" -> "d" [] c = "N" -> "n" [] OTHER -> c

UpperChar(c) ==
    CASE c = "y" -> "Y" [] c = "e" -> "E" [] c = "s" -> "S"
      [] c = "d" -> "D" [] c = "n" -> "N" [] OTHER -> c

Lower(s) == [i \in 1..Len(s) |-> LowerChar(s[i])]
Upper(s) == [i \in 1..Len(s) |-> UpperChar(s[i])]

RECURSIVE LStrip(_)
LStrip(s) == IF s # << >> /\ Head(s) = " " THEN LStrip(Tail(s)) ELSE s

RECURSIVE RStrip(_)
RStrip(s) ==
    IF s # << >> /\ s[Len(s)] = " " THEN RStrip(SubSeq(s, 1, Len(s) - 1)) ELSE s

Strip(s) == RStrip(LStrip(s))

Digits == {"0", "1", "2", "3", "4", "5", "6", "7", "8", "9"}

DigitVal(c) ==
    CASE c = "0" -> 0 [] c = "1" -> 1 [] c = "2" -> 2 [] c = "3" -> 3
      [] c = "4" -> 4 [] c = "5" -> 5 [] c = "6" -> 6 [] c = "7" -> 7
      [] c = "8" -> 8 [] OTHER -> 9

RECURSIVE NatOf(_)
NatOf(s) == IF s = << >> THEN 0 ELSE 10 * NatOf(SubSeq(s, 1, Len(s) - 1)) + DigitVal(s[Len(s)])

AllDigits(s) == s # << >> /\ \A i \in 1..Len(s) : s[i] \in Digits

\* int(s): Some(n), or None where Python raises ValueError
ParseInt(s) ==
    LET t == Strip(s) IN
    IF AllDigits(t) THEN Some(NatOf(t))
    ELSE IF t # << >> /\ Head(t) = "-" /\ AllDigits(Tail(t)) THEN Some(0 - NatOf(Tail(t)))
    ELSE IF t # << >> /\ Head(t) = "+" /\ AllDigits(Tail(t)) THEN Some(NatOf(Tail(t)))
    ELSE None

-----------------------------------------------------------------------------
(* os.path *)

Sep == "/"

IsAbs(p) == p # << >> /\ Head(p) = Sep

\* os.path.join(a, b)
Join(a, b) ==
    IF IsAbs(b) THEN b
    ELSE IF a = << >> \/ a[Len(a)] = Sep THEN a \o b
    ELSE a \o <<Sep>> \o b

RECURSIVE SplitSep(_, _)
\* p.split("/"), cur being the component read so far
SplitSep(p, cur) ==
    IF p = << >> THEN <<cur>>
    ELSE IF Head(p) = Sep THEN <<cur>> \o SplitSep(Tail(p), << >>)
    ELSE SplitSep(Tail(p), Append(cur, Head(p)))

RECURSIVE NormComps(_, _)
\* posixpath.normpath on an absolute path: drops "", "." and resolves ".."
NormComps(comps, acc) ==
    IF comps = << >> THEN acc
    ELSE LET c == Head(comps) IN
         IF c = << >> \/ c = <<".">> THEN NormComps(Tail(comps), acc)
         ELSE IF c = <<".", ".">>
              THEN NormComps(Tail(comps),
                             IF acc = << >> THEN acc ELSE SubSeq(acc, 1, Len(acc) - 1))
              ELSE NormComps(Tail(comps), Append(acc, c))

RECURSIVE JoinComps(_)
JoinComps(comps) ==
    IF comps = << >> THEN << >>
    ELSE <<Sep>> \o Head(comps) \o JoinComps(Tail(comps))

\* the working directory of every process of the model
Cwd == <<"/", "w">>

AbsComps(p) == NormComps(SplitSep(IF IsAbs(p) THEN p ELSE Join(Cwd, p), << >>), << >>)

\* os.path.abspath(p)
AbsPath(p) ==
    LET c == AbsComps(p) IN IF c = << >> THEN <<Sep>> ELSE JoinComps(c)

\* the venv's own interpreter: os.path.join(venv_dir, "bin", "python")
VenvPython(venv_dir) == Join(Join(venv_dir, <<"b">>), <<"p">>)

\* os.path.exists / os.path.isfile
Exists(f, p) == AbsPath(p) \in f.files \cup f.dirs
IsFile(f, p) == AbsPath(p) \in f.files

-----------------------------------------------------------------------------
(* The file system of the model *)

SysPy   == <<"/", "u", "/", "p">>      \* the system interpreter, always present
NoPy    == <<"/", "u", "/", "x">>      \* a path at which nothing exists

VenvV   == <<"v">>                     \* venv directory "v"  (relative to Cwd)
VenvV2  == <<"v", "2">>                \* its sibling "v2": the name starts with "v"

\* whether p lies in the directory tree rooted at d (d itself included)
InTree(p, d) ==
    LET pc_ == AbsComps(p)  dc == AbsComps(d) IN
    Len(dc) <= Len(pc_) /\ SubSeq(pc_, 1, Len(dc)) = dc

\* shutil.rmtree(d): every directory and file of the tree is gone
RmTree(f, d) ==
    [files |-> {p \in f.files : ~InTree(p, d)},
     dirs  |-> {p \in f.dirs : ~InTree(p, d)}]

\* a failed shutil.rmtree(d): the entries in gone were deleted before the
\* error, the directory d itself is still there
RmTreePartial(f, d, gone) ==
    [files |-> f.files \ gone, dirs |-> f.dirs \ gone]

\* what `python -m venv d` leaves behind: the directory, and with made the
\* interpreter bin/python inside it
MakeVenv(f, d, made) ==
    [files |-> f.files \cup (IF made THEN {AbsPath(VenvPython(d))} ELSE {}),
     dirs  |-> f.dirs \cup {AbsPath(d)}]

-----------------------------------------------------------------------------
(* handle_data.py *)

EmptyRegistry == [interpreters |-> None, default_interpreter |-> None]

\* InterpretersData.__init__ seeding the default and leaving the list alone
LoadRegistryKeepsList(d, f, current) ==
    IF ~Truthy(d.default_interpreter) /\ current # << >> /\ IsFile(f, current)
    THEN [d EXCEPT !.default_interpreter = Some(current)]
    ELSE d

\* InterpretersData.__init__: load interpreters.json, then seed the default
\* with sys.executable (current) when none is configured
LoadRegistry(d, f, current) ==
    IF ~Truthy(d.default_interpreter) /\ current # << >> /\ IsFile(f, current)
    THEN [interpreters |->
              IF d.interpreters = None THEN Some(<<current>>)
              ELSE IF Contains(Val(d.interpreters), current) THEN d.interpreters
              ELSE Some(<<current>> \o Val(d.interpreters)),
          default_interpreter |-> Some(current)]
    ELSE d

\* get_project_default_interpreter()
GetProjectDefault(pj) == pj

\* set_project_default_interpreter(path)
SetProjectDefault(pj, path) == Some(path)

\* clear_project_default_if_inside that never clears
ClearProjectDefaultNever(pj, path_prefix) == pj

\* clear_project_default_if_inside(path_prefix)
ClearProjectDefaultIfInside(pj, path_prefix) ==
    IF Truthy(pj) /\ StartsWith(AbsPath(Val(pj)), AbsPath(path_prefix))
    THEN None ELSE pj

-----------------------------------------------------------------------------
(* Observation of a finished command *)

NoCmd ==
    [cmd |-> "none", rc |-> 0, raised |-> FALSE, arg |-> None, choice |-> None,
     interp |-> None, venv_dir |-> << >>, dry |-> FALSE, confirm |-> << >>,
     rmtree |-> "none", spawned |-> << >>,
     name |-> "", pkgs |-> << >>, lines |-> << >>, out |-> << >>, created |-> "none",
     loaded |-> EmptyRegistry,
     pre |-> [disk |-> EmptyRegistry, proj |-> None, fs |-> [files |-> {}, dirs |-> {}],
              tpl |-> None]]

\* install_packages not running
IdleInst ==
    [pc |-> "off", interpreter |-> << >>, packages |-> << >>, dry_run |-> FALSE,
     i |-> 0, all_stdout |-> << >>, all_stderr |-> << >>,
     spawned |-> << >>, ended |-> << >>, installed |-> {},
     ret |-> None, raised |-> FALSE]

Init ==
    /\ disk = EmptyRegistry
    /\ proj = None
    /\ fs = [files |-> {SysPy}, dirs |-> {Cwd}]
    /\ mem = EmptyRegistry
    /\ pc = "idle"
    /\ last = NoCmd
    /\ inst = IdleInst
    /\ tpl = None
    /\ executable = << >>
    /\ other = [pc |-> "idle", mem |-> EmptyRegistry, last |-> NoCmd]

\* sys.executable: the tool runs under an interpreter that exists, so the
\* isfile test of the seeding holds in every process
RunningInterpreters == fs.files

\* process start: `from .handle_data import interpreters_data` builds the
\* registry object, seeding and saving it when no default is configured.
\* Until the command ends, last.pre holds what the files held before.
\* Writing interpreters.json and .pynstal.json succeeds throughout.
Start(current) ==
    /\ pc = "idle"
    /\ LET m == LoadRegistry(disk, fs, current) IN
       /\ mem' = m
       /\ disk' = IF m # disk THEN m ELSE disk     \* self.save() when seeded
    /\ pc' = "run"
    /\ executable' = current
    /\ last' = [NoCmd EXCEPT !.pre = [disk |-> disk, proj |-> proj, fs |-> fs, tpl |-> tpl]]
    /\ UNCHANGED <<proj, fs, inst, tpl, other>>

\* the process ends: its registry object is gone.  The observation keeps
\* what the files held when the command began, and the registry the
\* process had loaded.
Finish(obs) ==
    /\ pc' = "idle"
    /\ mem' = EmptyRegistry
    /\ executable' = << >>
    /\ last' = [obs EXCEPT !.pre = [disk |-> disk, proj |-> proj, fs |-> fs, tpl |-> tpl],
                           !.loaded = mem]

AddInputs == {NoPy}

\* cmd_add_interpreter reading interpreters.json again before it appends
AddInterpreterRereads(m, d, path) ==
    IF Contains(ListOf(d.interpreters), path) THEN d
    ELSE [d EXCEPT !.interpreters = Some(Append(ListOf(d.interpreters), path))]

\* cmd_add_interpreter on registry object m: what interpreters.json holds
\* afterwards, d being what it held before.  save() writes the whole object.
AddInterpreter(m, d, path) ==
    IF Contains(ListOf(m.interpreters), path) THEN d
    ELSE [m EXCEPT !.interpreters = Some(Append(ListOf(m.interpreters), path))]

\* cmd_add_interpreter
CmdAddInterpreter(path) ==
    /\ pc = "run"
    /\ disk' = AddInterpreter(mem, disk, path)
    /\ Finish([NoCmd EXCEPT !.cmd = "add-interpreter", !.arg = Some(path)])
    /\ UNCHANGED <<proj, fs, inst, tpl, other>>

\* the second process starts: it loads interpreters.json as Start does
OtherStart(current) ==
    /\ other.pc = "idle"
    /\ LET m == LoadRegistry(disk, fs, current) IN
       /\ other' = [pc |-> "run", mem |-> m, last |-> NoCmd]
       /\ disk' = IF m # disk THEN m ELSE disk
    /\ UNCHANGED <<proj, fs, mem, pc, last, inst, tpl, executable>>

\* cmd_add_interpreter in the second process
OtherAddInterpreter(path) ==
    /\ other.pc = "run"
    /\ disk' = AddInterpreter(other.mem, disk, path)
    /\ other' = [pc |-> "idle", mem |-> EmptyRegistry,
                 last |-> [NoCmd EXCEPT !.cmd = "add-interpreter", !.arg = Some(path),
                                        !.loaded = other.mem]]
    /\ UNCHANGED <<proj, fs, mem, pc, last, inst, tpl, executable>>

-----------------------------------------------------------------------------
(* main.py: choose_interpreter *)

\* lines 35-36 with the two defaults swapped: the global default wins
EffectiveDefaultGlobalFirst(pj, m) ==
    IF Truthy(m.default_interpreter) THEN m.default_interpreter ELSE GetProjectDefault(pj)

\* default = project_default or interpreters_data.default_interpreter
EffectiveDefault(pj, m) ==
    LET project_default == GetProjectDefault(pj) IN
    IF Truthy(project_default) THEN project_default ELSE m.default_interpreter

\* choose_interpreter(interpreter_arg) with `choice` typed at the prompt.
\* ret is the value returned, prompted tells whether input() was reached.
ChooseInterpreter(interpreter_arg, choice, pj, m) ==
    IF Truthy(interpreter_arg)
    THEN [ret |-> interpreter_arg, prompted |-> FALSE]
    ELSE
      LET default == EffectiveDefault(pj, m)
          interpreters == ListOf(m.interpreters)
          typed == Strip(choice)
          n == ParseInt(typed)
      IN
      IF interpreters = << >> /\ ~Truthy(default)
      THEN [ret |-> None, prompted |-> FALSE]
      ELSE [prompted |-> TRUE,
            ret |->
              IF typed = << >> THEN default
              ELSE IF Upper(typed) = <<"D">> /\ Truthy(default) THEN default
              ELSE IF n # None /\ 0 <= Val(n) - 1 /\ Val(n) - 1 < Len(interpreters)
                   THEN Some(interpreters[Val(n)])
              ELSE None]

-----------------------------------------------------------------------------
(* create_venv.py: _create_venv, create_venv *)

VenvCmd(interpreter_path, venv_dir) ==
    <<AbsPath(interpreter_path), <<"-", "m">>, <<"v", "e", "n", "v">>, AbsPath(venv_dir)>>

\* how a spawned child can end: exit code 0, exit code non-zero, an exception
\* while its output is read, an exception raised by subprocess.Popen itself
Outcomes == {"ok", "exit", "readexc", "spawnexc"}

\* Popen of an executable that is missing always raises
CanEnd(f, exe, outcome) == Exists(f, exe) \/ outcome = "spawnexc"

\* _create_venv lines 26-55: Popen, read the output, wait; raised: the
\* exception left the function (Popen stands before the try)
SpawnVenv(cmd, outcome) ==
    IF outcome = "spawnexc"
    THEN [success |-> FALSE, stdout |-> << >>, stderr |-> << >>,
          raised |-> TRUE, spawned |-> <<cmd>>]
    ELSE IF outcome = "readexc"
    THEN [success |-> FALSE, stdout |-> << >>, stderr |-> <<"exception">>,
          raised |-> FALSE, spawned |-> <<cmd>>]
    ELSE [success |-> outcome = "ok", stdout |-> <<"output">>, stderr |-> << >>,
          raised |-> FALSE, spawned |-> <<cmd>>]

\* _create_venv without the dry_run return of lines 21-23
CreateVenvInnerAlwaysRuns(interpreter_path, venv_dir, dry_run, outcome) ==
    SpawnVenv(VenvCmd(interpreter_path, venv_dir), outcome)

\* _create_venv(interpreter_path, venv_dir, dry_run), the child ending with
\* `outcome`
CreateVenvInner(interpreter_path, venv_dir, dry_run, outcome) ==
    LET cmd == VenvCmd(interpreter_path, venv_dir) IN
    IF dry_run
    THEN [success |-> TRUE, stdout |-> <<"DRY RUN: would run:", cmd>>, stderr |-> << >>,
          raised |-> FALSE, spawned |-> << >>]
    ELSE SpawnVenv(cmd, outcome)

\* lines 79-83, and the venv's interpreter made the global default as well
RegisterVenvAsDefault(m, venv_python) ==
    [interpreters |->
        IF m.interpreters = None THEN Some(<<venv_python>>)
        ELSE IF Contains(Val(m.interpreters), venv_python) THEN m.interpreters
        ELSE Some(<<venv_python>> \o Val(m.interpreters)),
     default_interpreter |-> Some(venv_python)]

\* lines 79-83: the venv's interpreter goes to the front of the list
RegisterVenv(m, venv_python) ==
    [m EXCEPT !.interpreters =
        IF m.interpreters = None THEN Some(<<venv_python>>)
        ELSE IF Contains(Val(m.interpreters), venv_python) THEN m.interpreters
        ELSE Some(<<venv_python>> \o Val(m.interpreters))]

PipPynstalCmd(venv_python) ==
    <<venv_python, <<"-", "m">>, <<"p", "i", "p">>, <<"p", "y", "n", "s", "t", "a", "l">>>>

ShellCmd == <<<<"s", "h">>, <<"-", "i">>>>

\* create_venv(interpreter_path, venv_dir, dry_run, offer_activation) run on
\* registry object m, project config pj and file system f.  env is what the
\* outside world does: outcome of the venv child, made (the child wrote
\* bin/python), activate (the user answers 'y' to the activation prompt).
CreateVenv(interpreter_path, venv_dir, dry_run, offer_activation, m, d, pj, f, env) ==
    LET r == CreateVenvInner(interpreter_path, venv_dir, dry_run, env.outcome)
        f1 == IF ~dry_run /\ env.outcome = "ok" THEN MakeVenv(f, venv_dir, env.made) ELSE f
        venv_python == AbsPath(VenvPython(venv_dir))
        m1 == RegisterVenv(m, venv_python)
        same == [ret |-> r.success, raised |-> r.raised, mem |-> m, disk |-> d,
                 proj |-> pj, fs |-> f1, spawned |-> r.spawned, stdout |-> r.stdout]
    IN
    IF r.success /\ ~dry_run /\ Exists(f1, venv_python)
    THEN [same EXCEPT
            !.mem = m1,
            !.disk = m1,
            !.proj = SetProjectDefault(pj, venv_python),
            !.spawned = r.spawned \o <<PipPynstalCmd(venv_python)>>
                        \o (IF offer_activation /\ env.activate THEN <<ShellCmd>> ELSE << >>)]
    ELSE same

\* the values typed or passed on the command line
ArgInputs == {None, Some(<< >>), Some(SysPy), Some(NoPy)}
ChoiceInputs == { << >>, <<"d">>, <<"1">>, <<" ", "2">>, <<"0">>, <<"x">> }
VenvDirInputs == {VenvV, VenvV2}
Envs ==
    {e \in [outcome : Outcomes, made : BOOLEAN, activate : BOOLEAN] :
        /\ e.made => e.outcome = "ok"
        /\ e.activate => e.made}
DryEnv == [outcome |-> "ok", made |-> FALSE, activate |-> FALSE]

\* cmd_create
CmdCreate(interpreter_arg, choice, venv_dir, dry_run, env) ==
    /\ pc = "run"
    /\ LET c == ChooseInterpreter(interpreter_arg, choice, proj, mem)
           obs == [NoCmd EXCEPT !.cmd = "create-venv", !.arg = interpreter_arg,
                                !.choice = IF c.prompted THEN Some(choice) ELSE None,
                                !.interp = c.ret, !.venv_dir = venv_dir, !.dry = dry_run]
       IN
       IF ~Truthy(c.ret)
       THEN /\ Finish([obs EXCEPT !.rc = 2])
            /\ UNCHANGED <<disk, proj, fs>>
       ELSE /\ dry_run \/ CanEnd(fs, Val(c.ret), env.outcome)
            /\ LET r == CreateVenv(Val(c.ret), venv_dir, dry_run, TRUE, mem, disk, proj, fs, env)
               IN /\ disk' = r.disk
                  /\ proj' = r.proj
                  /\ fs' = r.fs
                  /\ Finish([obs EXCEPT !.rc = IF r.ret THEN 0 ELSE 1,
                                        !.raised = r.raised,
                                        !.spawned = r.spawned])
    /\ UNCHANGED <<inst, tpl, other>>

-----------------------------------------------------------------------------
(* main.py: cmd_remove_venv *)

\* os.path.abspath(p).startswith(os.path.abspath(venv_dir))
PointsInto(p, venv_dir) == StartsWith(AbsPath(p), AbsPath(venv_dir))

\* lines 747-748 left out: the default is kept whatever it points at
NewDefaultKept(m, new_list, venv_dir) == m.default_interpreter

\* lines 747-748: a default that pointed into the venv moves to the first
\* interpreter left, or to None
NewDefault(m, new_list, venv_dir) ==
    IF Truthy(m.default_interpreter) /\ PointsInto(Val(m.default_interpreter), venv_dir)
    THEN (IF new_list # << >> THEN Some(new_list[1]) ELSE None)
    ELSE m.default_interpreter

\* lines 735-751: the registry object and project config after the deletion
ForgetVenv(m, pj, venv_dir) ==
    LET interpreters == ListOf(m.interpreters)
        new_list == SelectNot(interpreters,
                              {interpreters[i] : i \in {j \in 1..Len(interpreters) :
                                                          PointsInto(interpreters[j], venv_dir)}})
        new_default == NewDefault(m, new_list, venv_dir)
    IN
    IF interpreters # << >>
    THEN [mem |-> [interpreters |-> Some(new_list), default_interpreter |-> new_default],
          saved |-> TRUE,
          proj |-> ClearProjectDefaultIfInside(pj, venv_dir)]
    ELSE [mem |-> m, saved |-> FALSE, proj |-> pj]

\* a confirmation that takes any beginning of "yes", the empty line included
ConfirmedByPrefix(confirm) == StartsWith(<<"y", "e", "s">>, Lower(Strip(confirm)))

\* confirm = input(...).strip().lower();  confirm != 'yes' aborts
Confirmed(confirm) == Lower(Strip(confirm)) = <<"y", "e", "s">>

Yes == <<"y", "e", "s">>

ConfirmInputs ==
    { <<"y", "e", "s">>, <<"Y", "E", "S">>, <<" ", "y", "e", "s", " ">>,
      << >>, <<"y">>, <<"n", "o">> }

RemoveDirInputs == {VenvV, VenvV2, <<"v", "/">>}

\* lines 728-759 with the `return 1` of the except branch missing
AfterRmTreeForgetsAlways(m, d, pj, venv_dir, failed) ==
    LET r == ForgetVenv(m, pj, venv_dir) IN
    [disk |-> IF r.saved THEN r.mem ELSE d, proj |-> r.proj, rc |-> IF failed THEN 1 ELSE 0]

\* lines 728-759: what follows shutil.rmtree; failed: it raised
AfterRmTree(m, d, pj, venv_dir, failed) ==
    IF failed THEN [disk |-> d, proj |-> pj, rc |-> 1]
    ELSE LET r == ForgetVenv(m, pj, venv_dir) IN
         [disk |-> IF r.saved THEN r.mem ELSE d, proj |-> r.proj, rc |-> 0]

\* cmd_remove_venv; rm_ok: shutil.rmtree succeeds, else it raised after
\* deleting the entries in gone
CmdRemoveVenv(venv_dir, confirm, rm_ok, gone) ==
    /\ pc = "run"
    /\ LET obs == [NoCmd EXCEPT !.cmd = "remove-venv", !.venv_dir = venv_dir] IN
       IF ~Exists(fs, venv_dir)
       THEN /\ Finish([obs EXCEPT !.rc = 2])
            /\ UNCHANGED <<disk, proj, fs>>
       ELSE IF ~Confirmed(confirm)
       THEN /\ Finish([obs EXCEPT !.rc = 1, !.confirm = confirm])
            /\ UNCHANGED <<disk, proj, fs>>
       ELSE LET failed == ~rm_ok \/ IsFile(fs, venv_dir)
                r == AfterRmTree(mem, disk, proj, venv_dir, failed)
            IN
            /\ fs' = IF failed
                     THEN RmTreePartial(fs, venv_dir, IF IsFile(fs, venv_dir) THEN {} ELSE gone)
                     ELSE RmTree(fs, venv_dir)
            /\ disk' = r.disk
            /\ proj' = r.proj
            /\ Finish([obs EXCEPT !.rc = r.rc, !.confirm = confirm,
                                  !.rmtree = IF failed THEN "failed" ELSE "ok"])
    /\ UNCHANGED <<inst, tpl, other>>

-----------------------------------------------------------------------------
(* main.py: cmd_interpreter_remove *)

MaxChoices == 2

RemoveInputs == { <<"1">>, <<"2">>, <<"x">> }

RECURSIVE InterpreterRemoveLoopKeepsDefault(_, _, _)
\* the loop without lines 138-139: the default stays what it was
InterpreterRemoveLoopKeepsDefault(m, d, choices) ==
    IF choices = << >> THEN [mem |-> m, disk |-> d]
    ELSE
      LET n == ParseInt(Strip(Head(choices)))
          interpreters == ListOf(m.interpreters)
      IN
      IF n # None /\ 0 <= Val(n) - 1 /\ Val(n) - 1 < Len(interpreters)
      THEN LET m1 == [m EXCEPT !.interpreters = Some(RemoveAt(interpreters, Val(n)))]
           IN InterpreterRemoveLoopKeepsDefault(m1, m1, Tail(choices))
      ELSE InterpreterRemoveLoopKeepsDefault(m, d, Tail(choices))

RECURSIVE InterpreterRemoveLoop(_, _, _)
\* the `while True` loop fed the typed lines `choices`, then an empty line;
\* d is interpreters.json, written after each removal
InterpreterRemoveLoop(m, d, choices) ==
    IF choices = << >> THEN [mem |-> m, disk |-> d]
    ELSE
      LET n == ParseInt(Strip(Head(choices)))
          interpreters == ListOf(m.interpreters)
      IN
      IF n # None /\ 0 <= Val(n) - 1 /\ Val(n) - 1 < Len(interpreters)
      THEN LET removed == interpreters[Val(n)]
               rest == RemoveAt(interpreters, Val(n))
               m1 == [interpreters |-> Some(rest),
                      default_interpreter |->
                          IF m.default_interpreter = Some(removed)
                          THEN (IF rest # << >> THEN Some(rest[1]) ELSE None)
                          ELSE m.default_interpreter]
           IN InterpreterRemoveLoop(m1, m1, Tail(choices))
      ELSE InterpreterRemoveLoop(m, d, Tail(choices))

RECURSIVE SeqsUpTo(_, _)
SeqsUpTo(S, n) ==
    IF n = 0 THEN { << >> }
    ELSE LET shorter == SeqsUpTo(S, n - 1) IN
         shorter \cup {Append(q, x) : q \in shorter, x \in S}

\* cmd_interpreter_remove
CmdInterpreterRemove(choices) ==
    /\ pc = "run"
    /\ IF ListOf(mem.interpreters) = << >>
       THEN UNCHANGED disk
       ELSE disk' = InterpreterRemoveLoop(mem, disk, choices).disk
    /\ Finish([NoCmd EXCEPT !.cmd = "interpreter-remove", !.lines = choices])
    /\ UNCHANGED <<proj, fs, inst, tpl, other>>

-----------------------------------------------------------------------------
(* create_venv.py: install_packages *)

\* a template entry: a plain name, a dict {"packages"|"package", "args"}, or
\* a JSON value that is neither (skipped by the loop)
StrEntry(n) ==
    [kind |-> "str", name |-> n, packages |-> None, package |-> None, args |-> None]
DictEntry(ps, p, a) ==
    [kind |-> "dict", name |-> "", packages |-> ps, package |-> p, args |-> a]
OtherEntry ==
    [kind |-> "other", name |-> "", packages |-> None, package |-> None, args |-> None]

\* pkg_list = entry.get("packages") or entry.get("package") or []
PkgList(entry) ==
    IF entry.kind = "str" THEN <<entry.name>>
    ELSE IF ListOf(entry.packages) # << >> THEN Val(entry.packages)
    ELSE IF entry.package # None /\ Val(entry.package) # "" THEN <<Val(entry.package)>>
    ELSE << >>

\* extra_args = entry.get("args", []) or []
ExtraArgs(entry) == IF entry.kind = "str" THEN << >> ELSE ListOf(entry.args)

PipCmd(abs_interpreter, entry) ==
    [exe |-> abs_interpreter, argv |-> <<"-m", "pip", "install">> \o PkgList(entry) \o ExtraArgs(entry)]

InstallReturn(st, ok, stdout, stderr) ==
    [st EXCEPT !.pc = "done", !.ret = Some([ok |-> ok, stdout |-> stdout, stderr |-> stderr])]

\* lines 188-222: the entry is executed, its child ending with `outcome`
RunEntry(st, f, outcome) ==
    LET entry == st.packages[st.i]
        abs_interpreter == AbsPath(st.interpreter)
        cmd == PipCmd(abs_interpreter, entry)
        next == [st EXCEPT !.i = st.i + 1]
        tried == [next EXCEPT !.spawned = Append(st.spawned, [i |-> st.i, cmd |-> cmd]),
                              !.ended = Append(st.ended, [i |-> st.i, how |-> outcome])]
        pkg_out == [i |-> st.i, kind |-> "out", cmd |-> cmd]
    IN
    IF ~Exists(f, abs_interpreter)
    THEN InstallReturn(next, FALSE, << >>, <<[i |-> st.i, kind |-> "notfound"]>>)
    ELSE IF outcome = "spawnexc"
    THEN [tried EXCEPT !.pc = "done", !.raised = TRUE]
    ELSE IF outcome = "readexc"
    THEN InstallReturn(tried, FALSE, st.all_stdout, <<[i |-> st.i, kind |-> "exception"]>>)
    ELSE IF outcome = "exit"
    THEN InstallReturn([tried EXCEPT !.all_stdout = Append(st.all_stdout, pkg_out)],
                       FALSE, Append(st.all_stdout, pkg_out),
                       Append(st.all_stderr, [i |-> st.i, kind |-> "exit"]))
    ELSE [tried EXCEPT !.all_stdout = Append(st.all_stdout, pkg_out),
                       !.installed = st.installed \cup {cmd.argv[k] : k \in 4..(3 + Len(PkgList(entry)))}]

\* the loop body without the dry_run branch of lines 184-186
InstallEntryRunsDry(st, f, outcome) ==
    IF st.packages[st.i].kind = "other" THEN [st EXCEPT !.i = st.i + 1]
    ELSE RunEntry(st, f, outcome)

\* one pass of the body of `for entry in iterable` (lines 170-222), the child
\* of this entry ending with `outcome`
InstallEntry(st, f, outcome) ==
    LET entry == st.packages[st.i]
        cmd == PipCmd(AbsPath(st.interpreter), entry)
        next == [st EXCEPT !.i = st.i + 1]
    IN
    IF entry.kind = "other" THEN next
    ELSE IF st.dry_run
    THEN [next EXCEPT !.all_stdout = Append(st.all_stdout, [i |-> st.i, kind |-> "dry", cmd |-> cmd])]
    ELSE RunEntry(st, f, outcome)

MaxEntries == 3

EntryInputs ==
    { StrEntry("numpy"),
      DictEntry(Some(<<"torch", "vision">>), None, Some(<<"--index-url", "u">>)),
      DictEntry(None, Some("legacy"), None),
      OtherEntry }

InterpreterInputs == {SysPy, NoPy, <<".", ".", "/", "u", "/", "p">>}

\* install_packages(interpreter, packages, dry_run): entry
InstallBegin(interpreter, packages, dry_run) ==
    /\ inst.pc = "off"
    /\ inst' = [IdleInst EXCEPT !.pc = "loop", !.interpreter = interpreter,
                                !.packages = ListOf(packages), !.dry_run = dry_run, !.i = 1]
    /\ UNCHANGED <<disk, proj, fs, mem, pc, last, tpl, executable, other>>

\* the next entry of the list
InstallStep(outcome) ==
    /\ inst.pc = "loop"
    /\ inst.i <= Len(inst.packages)
    /\ inst' = InstallEntry(inst, fs, outcome)
    /\ UNCHANGED <<disk, proj, fs, mem, pc, last, tpl, executable, other>>

\* the list is exhausted: line 224
InstallEnd ==
    /\ inst.pc = "loop"
    /\ inst.i > Len(inst.packages)
    /\ inst' = InstallReturn(inst, TRUE, inst.all_stdout, inst.all_stderr)
    /\ UNCHANGED <<disk, proj, fs, mem, pc, last, tpl, executable, other>>

NextInstall ==
    \/ \E ip \in InterpreterInputs, dry \in BOOLEAN :
          \E pk \in {None} \cup {Some(q) : q \in SeqsUpTo(EntryInputs, MaxEntries)} :
             InstallBegin(ip, pk, dry)
    \/ \E outcome \in Outcomes : InstallStep(outcome)
    \/ InstallEnd

SpecInstall == Init /\ [][NextInstall]_vars

-----------------------------------------------------------------------------
(* main.py: the template registry *)

RECURSIVE SplitWords(_, _)
\* str.split(): the words of s, cur being the word read so far
SplitWords(s, cur) ==
    IF s = << >> THEN (IF cur = "" THEN << >> ELSE <<cur>>)
    ELSE IF Head(s) = " "
         THEN (IF cur = "" THEN << >> ELSE <<cur>>) \o SplitWords(Tail(s), "")
         ELSE SplitWords(Tail(s), cur \o Head(s))

Split(s) == SplitWords(s, "")

\* the names a template can be given on the command line
TplNames == {"ml", "web"}

\* {"templates": {}}: no name is bound
NoTemplates == [n \in TplNames |-> None]

\* The text of templates.json is the sequence of its JSON tokens: the
\* punctuation marks, and the string literals with their value in v.
Tok(t, v) == [t |-> t, v |-> v]
Mark(t) == Tok(t, "")

RECURSIVE JoinComma(_)
\* the token sequences in parts, a "," between each two
JoinComma(parts) ==
    IF parts = << >> THEN << >>
    ELSE IF Len(parts) = 1 THEN parts[1]
    ELSE parts[1] \o <<Mark(",")>> \o JoinComma(Tail(parts))

\* json.dump of a list of str
DumpStrList(l) ==
    <<Mark("[")>> \o JoinComma([i \in 1..Len(l) |-> <<Tok("str", l[i])>>]) \o <<Mark("]")>>

\* json.dump of a dict entry flattened to the plain names of its packages
DumpEntryFlat(e) ==
    IF e.kind = "str" THEN <<Tok("str", e.name)>>
    ELSE JoinComma([i \in 1..Len(ListOf(e.packages)) |-> <<Tok("str", Val(e.packages)[i])>>])

\* json.dump of one entry of a template: a str, a dict with the keys it
\* has, or a value that is neither (a number)
DumpEntry(e) ==
    IF e.kind = "str" THEN <<Tok("str", e.name)>>
    ELSE IF e.kind = "other" THEN <<Tok("num", "0")>>
    ELSE <<Mark("{")>>
         \o JoinComma(
              (IF e.packages # None
               THEN << <<Tok("str", "packages"), Mark(":")>> \o DumpStrList(Val(e.packages)) >>
               ELSE << >>)
              \o (IF e.package # None
                  THEN << <<Tok("str", "package"), Mark(":"), Tok("str", Val(e.package))>> >>
                  ELSE << >>)
              \o (IF e.args # None
                  THEN << <<Tok("str", "args"), Mark(":")>> \o DumpStrList(Val(e.args)) >>
                  ELSE << >>))
         \o <<Mark("}")>>

\* json.dump of the entry list of a template
DumpEntries(entries) ==
    <<Mark("[")>> \o JoinComma([i \in 1..Len(entries) |-> DumpEntry(entries[i])])
    \o <<Mark("]")>>

\* json.dump({"templates": templates}, f, indent=4)
JsonDump(templates) ==
    LET bound == SelectSeq(<<"ml", "web">>, LAMBDA n : templates[n] # None) IN
    <<Mark("{"), Tok("str", "templates"), Mark(":"), Mark("{")>>
    \o JoinComma([i \in 1..Len(bound) |->
                     <<Tok("str", bound[i]), Mark(":")>> \o DumpEntries(Val(templates[bound[i]]))])
    \o <<Mark("}"), Mark("}")>>

RECURSIVE ParseStrItems(_, _)
\* json.load inside a list of str, after its "[": the list and the tokens
\* that follow its "]"
ParseStrItems(toks, acc) ==
    IF Head(toks).t = "]" THEN [val |-> acc, rest |-> Tail(toks)]
    ELSE IF Head(toks).t = "," THEN ParseStrItems(Tail(toks), acc)
    ELSE ParseStrItems(Tail(toks), Append(acc, Head(toks).v))

RECURSIVE ParseMembers(_, _)
\* json.load inside a dict entry, after its "{"
ParseMembers(toks, acc) ==
    IF Head(toks).t = "}" THEN [val |-> acc, rest |-> Tail(toks)]
    ELSE IF Head(toks).t = "," THEN ParseMembers(Tail(toks), acc)
    ELSE LET key == Head(toks).v
             value == SubSeq(toks, 3, Len(toks))
             list == ParseStrItems(Tail(value), << >>)
         IN
         IF key = "package"
         THEN ParseMembers(Tail(value), [acc EXCEPT !.package = Some(Head(value).v)])
         ELSE IF key = "packages"
         THEN ParseMembers(list.rest, [acc EXCEPT !.packages = Some(list.val)])
         ELSE ParseMembers(list.rest, [acc EXCEPT !.args = Some(list.val)])

RECURSIVE ParseEntries(_, _)
\* json.load inside the entry list of a template, after its "["
ParseEntries(toks, acc) ==
    IF Head(toks).t = "]" THEN [val |-> acc, rest |-> Tail(toks)]
    ELSE IF Head(toks).t = "," THEN ParseEntries(Tail(toks), acc)
    ELSE IF Head(toks).t = "str"
    THEN ParseEntries(Tail(toks), Append(acc, StrEntry(Head(toks).v)))
    ELSE IF Head(toks).t = "num"
    THEN ParseEntries(Tail(toks), Append(acc, OtherEntry))
    ELSE LET d == ParseMembers(Tail(toks), DictEntry(None, None, None))
         IN ParseEntries(d.rest, Append(acc, d.val))

RECURSIVE ParseTemplates(_, _)
\* json.load inside the dict of the templates, after its "{"
ParseTemplates(toks, acc) ==
    IF Head(toks).t = "}" THEN acc
    ELSE IF Head(toks).t = "," THEN ParseTemplates(Tail(toks), acc)
    ELSE LET entries == ParseEntries(SubSeq(toks, 4, Len(toks)), << >>)
         IN ParseTemplates(entries.rest, [acc EXCEPT ![Head(toks).v] = Some(entries.val)])

\* json.load(f).get("templates", {}) of the text written by JsonDump
JsonLoad(toks) == ParseTemplates(SubSeq(toks, 5, Len(toks)), NoTemplates)

\* load_templates(): the user's templates.json when it exists; the bundled
\* resource is not part of the sources, reading it fails and line 213 applies
LoadTemplates(t) == IF t # None THEN JsonLoad(Val(t)) ELSE NoTemplates

\* save_templates(data): templates.json is replaced by the text of data
SaveTemplates(data) == Some(JsonDump(data))

\* what a template command did: its exit code and, when save_templates was
\* called, the data written
Refused == [rc |-> 2, saved |-> None]
Saved(data) == [rc |-> 0, saved |-> SaveTemplates(data)]

RECURSIVE CollectEntriesGrouped(_)
\* lines 492-507 keeping the packages of a line without special args together
\* in one entry
CollectEntriesGrouped(rounds) ==
    IF rounds = << >> \/ Strip(Head(rounds).pkg_line) = << >> THEN << >>
    ELSE <<DictEntry(Some(Split(Strip(Head(rounds).pkg_line))), None,
                     Some(Split(Strip(Head(rounds).args_line))))>>
         \o CollectEntriesGrouped(Tail(rounds))

RECURSIVE CollectEntries(_)
\* cmd_template_add lines 492-507: the loop fed the typed pairs
\* (pkg_line, args_line) in rounds, then an empty line
CollectEntries(rounds) ==
    IF rounds = << >> THEN << >>
    ELSE
      LET pkg_line == Strip(Head(rounds).pkg_line)
          args_line == Strip(Head(rounds).args_line)
          pkgs == Split(pkg_line)
      IN
      IF pkg_line = << >> THEN << >>
      ELSE (IF args_line # << >>
            THEN <<DictEntry(Some(pkgs), None, Some(Split(args_line)))>>
            ELSE [i \in 1..Len(pkgs) |-> StrEntry(pkgs[i])])
           \o CollectEntries(Tail(rounds))

\* cmd_template_add without the test of lines 488-490: an existing template
\* is overwritten
TemplateAddOverwrites(templates, name, rounds) ==
    Saved([templates EXCEPT ![name] = Some(CollectEntries(rounds))])

\* cmd_template_add
TemplateAdd(templates, name, rounds) ==
    IF templates[name] # None THEN Refused
    ELSE Saved([templates EXCEPT ![name] = Some(CollectEntries(rounds))])

\* cmd_template_remove
TemplateRemove(templates, name) ==
    IF templates[name] = None THEN Refused
    ELSE Saved([templates EXCEPT ![name] = None])

\* `package in entry`: a str equals a list item only when the item is that str
InEntry(entry, package) ==
    \E i \in 1..Len(entry) : entry[i].kind = "str" /\ entry[i].name = package

RECURSIVE AppendMissing(_, _)
\* lines 576-581: each package not yet in the list is appended
AppendMissing(entry, packages) ==
    IF packages = << >> THEN entry
    ELSE AppendMissing(IF InEntry(entry, Head(packages)) THEN entry
                       ELSE Append(entry, StrEntry(Head(packages))),
                       Tail(packages))

\* cmd_template_add_package without the test of lines 569-571: an absent
\* template is created
TemplateAddPackageCreates(templates, name, packages) ==
    Saved([templates EXCEPT ![name] = Some(AppendMissing(ListOf(templates[name]), packages))])

\* cmd_template_add_package; the templates written by the tool are lists
TemplateAddPackage(templates, name, packages) ==
    IF templates[name] = None THEN Refused
    ELSE Saved([templates EXCEPT ![name] = Some(AppendMissing(Val(templates[name]), packages))])

\* cmd_template_add_package_complex
TemplateAddPackageComplex(templates, name, packages, args_str) ==
    LET pip_args == IF Truthy(args_str) THEN Split(Val(args_str)) ELSE << >> IN
    IF templates[name] = None THEN Refused
    ELSE Saved([templates EXCEPT
                  ![name] = Some(Append(Val(templates[name]),
                                        DictEntry(Some(packages), None, Some(pip_args))))])

\* the loop reading one line, any line that is not empty taking the last
\* entry of the list away
RemovePackageLoopClamps(templates, name, choices, saved) ==
    IF choices = << >> \/ Strip(Head(choices)) = << >> \/ Val(templates[name]) = << >>
    THEN saved
    ELSE LET entry == Val(templates[name])
             t1 == [templates EXCEPT ![name] = Some(RemoveAt(entry, Len(entry)))]
         IN SaveTemplates(t1)

RECURSIVE RemovePackageLoop(_, _, _, _)
\* cmd_template_remove_package lines 656-710 on a list: the loop fed the
\* typed lines in choices, then an empty line; saved is what save_templates
\* wrote last (None: it was not called)
RemovePackageLoop(templates, name, choices, saved) ==
    IF choices = << >> THEN saved
    ELSE
      LET choice == Strip(Head(choices))
          n == ParseInt(choice)
          entry == Val(templates[name])
      IN
      IF choice = << >> THEN saved
      ELSE IF n = None THEN RemovePackageLoop(templates, name, Tail(choices), saved)
      ELSE IF 0 <= Val(n) - 1 /\ Val(n) - 1 < Len(entry)
      THEN LET t1 == [templates EXCEPT ![name] = Some(RemoveAt(entry, Val(n)))]
           IN RemovePackageLoop(t1, name, Tail(choices), SaveTemplates(t1))
      ELSE RemovePackageLoop(templates, name, Tail(choices), saved)

\* cmd_template_remove_package
TemplateRemovePackage(templates, name, choices) ==
    IF templates[name] = None THEN Refused
    ELSE [rc |-> 0, saved |-> RemovePackageLoop(templates, name, choices, None)]

MaxTplEntries == 2
MaxRounds == 2

NumpyLine == <<"n", "u", "m", "p", "y">>
PandasLine == <<" ", "p", "a", "n", "d", "a", "s", " ">>

\* what is typed at the two prompts of `template add`
AddRounds ==
    { [pkg_line |-> NumpyLine \o PandasLine, args_line |-> << >>],
      [pkg_line |-> NumpyLine, args_line |-> <<"-", "U">>],
      [pkg_line |-> PandasLine, args_line |-> <<" ">>] }

AddPkgInputs == { <<"numpy">>, <<"pandas", "numpy">>, <<"pandas", "pandas">> }
ArgsStrInputs == { None, Some(<<"-", "U">>) }
RemovePkgInputs == { <<" ", "1">>, <<"0">>, <<"9">> }

\* the entry list of template name after the command, None: no such template
EntryAfter(r, name) == IF r.saved = None THEN None ELSE LoadTemplates(r.saved)[name]

\* a template command that ended as r: templates.json, exit code, observation
TemplateCommand(obs, r) ==
    /\ pc = "run"
    /\ tpl' = IF r.saved = None THEN tpl ELSE r.saved
    /\ Finish([obs EXCEPT !.rc = r.rc])
    /\ UNCHANGED <<disk, proj, fs, inst, other>>

\* template add <name>
CmdTemplateAdd(name, rounds) ==
    LET r == TemplateAdd(LoadTemplates(tpl), name, rounds) IN
    /\ Len(ListOf(EntryAfter(r, name))) <= MaxTplEntries
    /\ TemplateCommand([NoCmd EXCEPT !.cmd = "template-add", !.name = name, !.lines = rounds], r)

\* template remove <name>
CmdTemplateRemove(name) ==
    TemplateCommand([NoCmd EXCEPT !.cmd = "template-remove", !.name = name],
                    TemplateRemove(LoadTemplates(tpl), name))

\* template add-pkg <name> <package>...
CmdTemplateAddPackage(name, packages) ==
    LET r == TemplateAddPackage(LoadTemplates(tpl), name, packages) IN
    /\ Len(ListOf(EntryAfter(r, name))) <= MaxTplEntries
    /\ TemplateCommand([NoCmd EXCEPT !.cmd = "template-add-pkg", !.name = name,
                                     !.pkgs = packages], r)

\* template add-pkg-complex <name> <package>... [--args-str ARGS]
CmdTemplateAddPackageComplex(name, packages, args_str) ==
    LET r == TemplateAddPackageComplex(LoadTemplates(tpl), name, packages, args_str) IN
    /\ Len(ListOf(EntryAfter(r, name))) <= MaxTplEntries
    /\ TemplateCommand([NoCmd EXCEPT !.cmd = "template-add-pkg-complex", !.name = name,
                                     !.pkgs = packages, !.arg = args_str], r)

\* template remove-pkg <name>
CmdTemplateRemovePackage(name, choices) ==
    TemplateCommand([NoCmd EXCEPT !.cmd = "template-remove-pkg", !.name = name,
                                  !.lines = choices],
                    TemplateRemovePackage(LoadTemplates(tpl), name, choices))

-----------------------------------------------------------------------------
(* main.py: cmd_install, cmd_create_from_template *)

RECURSIVE InstallLoop(_, _, _)
\* the loop of install_packages run from st to its return, the child of
\* entry i ending with outcomes[i]
InstallLoop(st, f, outcomes) ==
    IF st.pc # "loop" THEN st
    ELSE IF st.i > Len(st.packages)
         THEN InstallReturn(st, TRUE, st.all_stdout, st.all_stderr)
         ELSE InstallLoop(InstallEntry(st, f, outcomes[st.i]), f, outcomes)

\* install_packages(interpreter, packages, dry_run)
InstallPackages(interpreter, packages, dry_run, f, outcomes) ==
    InstallLoop([IdleInst EXCEPT !.pc = "loop", !.interpreter = interpreter,
                                 !.packages = packages, !.dry_run = dry_run, !.i = 1],
                f, outcomes)

\* install_packages_in_venv(venv_dir, packages, dry_run)
InstallPackagesInVenv(venv_dir, packages, dry_run, f, outcomes) ==
    InstallPackages(VenvPython(venv_dir), packages, dry_run, f, outcomes)

\* the children of a run over n entries: all exit with 0, or all before
\* entry `at` do and that one ends as `how` (no later child is spawned)
NoFail == [at |-> 0, how |-> "ok"]
Fails(n) == {NoFail} \cup [at : 1..n, how : Outcomes \ {"ok"}]
FailingAt(n, fail) == [i \in 1..n |-> IF i = fail.at THEN fail.how ELSE "ok"]

\* whether install_packages returned success
InstallOk(st) == st.ret # None /\ Val(st.ret).ok
InstallOut(st) == IF st.ret = None THEN << >> ELSE Val(st.ret).stdout

\* lines 840-843 asking the global default before the project default
InstallInterpreterGlobalFirst(interpreter_arg, pj, m, current) ==
    IF Truthy(interpreter_arg) THEN interpreter_arg
    ELSE IF Truthy(m.default_interpreter) THEN m.default_interpreter
    ELSE IF Truthy(GetProjectDefault(pj)) THEN GetProjectDefault(pj)
    ELSE Some(current)

\* cmd_install lines 840-843: the interpreter the packages go to
InstallInterpreter(interpreter_arg, pj, m, current) ==
    IF Truthy(interpreter_arg) THEN interpreter_arg
    ELSE IF Truthy(EffectiveDefault(pj, m)) THEN EffectiveDefault(pj, m)
    ELSE Some(current)

\* install <template> [--interpreter I] [--dry-run]
CmdInstall(template, interpreter_arg, dry_run, fail) ==
    /\ pc = "run"
    /\ LET templates == LoadTemplates(tpl)
           interpreter == InstallInterpreter(interpreter_arg, proj, mem, executable)
           obs == [NoCmd EXCEPT !.cmd = "install", !.name = template,
                                !.arg = interpreter_arg, !.dry = dry_run]
       IN
       IF templates[template] = None
       THEN Finish([obs EXCEPT !.rc = 2])
       ELSE IF ~Truthy(interpreter)
       THEN Finish([obs EXCEPT !.rc = 2])
       ELSE LET packages == Val(templates[template])
                st == InstallPackages(Val(interpreter), packages, dry_run, fs,
                                      FailingAt(Len(packages), fail))
            IN Finish([obs EXCEPT !.interp = interpreter,
                                  !.rc = IF InstallOk(st) THEN 0 ELSE 1,
                                  !.raised = st.raised,
                                  !.spawned = st.spawned,
                                  !.out = InstallOut(st)])
    /\ UNCHANGED <<disk, proj, fs, inst, tpl, other>>

\* cmd_create_from_template without the test of lines 438-440
AfterChooseGoesOn(interpreter) == FALSE

\* lines 438-440: `if not interpreter: return 2`
AfterChooseStops(interpreter) == ~Truthy(interpreter)

\* cmd_create_from_template without the test of lines 443-446
AfterCreateGoesOn(created, raised) == FALSE

\* lines 443-446: `if not created: return 1`; an exception that left
\* create_venv leaves the command as well
AfterCreateStops(created, raised) == raised \/ ~created

\* create-from-template <template> <venv_dir> [--interpreter I] [--dry-run]
CmdCreateFromTemplate(template, interpreter_arg, choice, venv_dir, dry_run, env, fail) ==
    /\ pc = "run"
    /\ LET templates == LoadTemplates(tpl)
           c == ChooseInterpreter(interpreter_arg, choice, proj, mem)
           obs0 == [NoCmd EXCEPT !.cmd = "create-from-template", !.name = template,
                                 !.arg = interpreter_arg, !.venv_dir = venv_dir,
                                 !.dry = dry_run]
           obs == [obs0 EXCEPT !.choice = IF c.prompted THEN Some(choice) ELSE None,
                               !.interp = c.ret]
       IN
       IF templates[template] = None
       THEN /\ Finish([obs0 EXCEPT !.rc = 2])
            /\ UNCHANGED <<disk, proj, fs>>
       ELSE IF AfterChooseStops(c.ret)
       THEN /\ Finish([obs EXCEPT !.rc = 2])
            /\ UNCHANGED <<disk, proj, fs>>
       ELSE /\ dry_run \/ CanEnd(fs, ListOf(c.ret), env.outcome)
            /\ LET r == CreateVenv(ListOf(c.ret), venv_dir, dry_run, FALSE, mem, disk, proj, fs, env)
                   packages == Val(templates[template])
                   st == InstallPackagesInVenv(venv_dir, packages, dry_run, r.fs,
                                               FailingAt(Len(packages), fail))
               IN /\ disk' = r.disk
                  /\ proj' = r.proj
                  /\ fs' = r.fs
                  /\ Finish(IF AfterCreateStops(r.ret, r.raised)
                            THEN [obs EXCEPT !.rc = 1, !.raised = r.raised,
                                             !.spawned = r.spawned,
                                             !.created = "failed"]
                            ELSE [obs EXCEPT
                                    !.created = IF r.ret THEN "ok" ELSE "failed",
                                    !.rc = IF InstallOk(st) THEN 0 ELSE 1,
                                    !.raised = st.raised,
                                    !.spawned = r.spawned \o st.spawned
                                        \o (IF InstallOk(st) /\ ~dry_run /\ env.activate
                                            THEN <<ShellCmd>> ELSE << >>),
                                    !.out = InstallOut(st)])
    /\ UNCHANGED <<inst, tpl, other>>

-----------------------------------------------------------------------------
(* main.py: cmd_set_default_interpreter, cmd_interpreter_add,
   cmd_interpreter_detect *)

\* cmd_set_default_interpreter with `choice` typed at the prompt
SetDefaultInterpreter(m, f, choice) ==
    LET interpreters == ListOf(m.interpreters)
        n == ParseInt(Strip(choice))
    IN
    IF interpreters = << >> THEN [rc |-> 2, mem |-> m, saved |-> FALSE]
    ELSE IF n # None /\ 0 <= Val(n) - 1 /\ Val(n) - 1 < Len(interpreters)
    THEN (IF ~IsFile(f, interpreters[Val(n)])
          THEN [rc |-> 2, mem |-> m, saved |-> FALSE]
          ELSE [rc |-> 0, saved |-> TRUE,
                mem |-> [m EXCEPT !.default_interpreter = Some(interpreters[Val(n)])]])
    ELSE [rc |-> 1, mem |-> m, saved |-> FALSE]

SetDefaultInputs == { <<"1">>, <<"2">>, << >> }

\* what is typed at the prompt of choose_interpreter
CftChoices == { << >>, <<"1">>, <<"x">> }

\* set-default-interpreter
CmdSetDefaultInterpreter(choice) ==
    /\ pc = "run"
    /\ LET r == SetDefaultInterpreter(mem, fs, choice) IN
       /\ disk' = IF r.saved THEN r.mem ELSE disk
       /\ Finish([NoCmd EXCEPT !.cmd = "set-default-interpreter", !.rc = r.rc,
                               !.choice = Some(choice)])
    /\ UNCHANGED <<proj, fs, inst, tpl, other>>

\* `if path not in interpreters: interpreters.append(path)` without the test
AppendNewAlways(interpreters, path) == Append(interpreters, path)

\* `if path not in interpreters: interpreters.append(path)`
AppendNew(interpreters, path) ==
    IF Contains(interpreters, path) THEN interpreters ELSE Append(interpreters, path)

RECURSIVE InterpreterAddLoop(_, _, _, _)
\* cmd_interpreter_add lines 93-107: the loop fed the typed lines in paths,
\* then an empty line
InterpreterAddLoop(m, f, paths, changed) ==
    IF paths = << >> \/ Strip(Head(paths)) = << >> THEN [mem |-> m, changed |-> changed]
    ELSE
      LET path == Strip(Head(paths))
          interpreters == ListOf(m.interpreters)
      IN
      IF ~IsFile(f, path) THEN InterpreterAddLoop(m, f, Tail(paths), changed)
      ELSE InterpreterAddLoop([m EXCEPT !.interpreters = Some(AppendNew(interpreters, path))],
                              f, Tail(paths),
                              changed \/ ~Contains(interpreters, path))

\* cmd_interpreter_add: the registry object at the end, saved when changed
InterpreterAdd(m, f, paths) ==
    LET r == InterpreterAddLoop(m, f, paths, FALSE)
        interpreters == ListOf(r.mem.interpreters)
    IN
    [saved |-> r.changed,
     mem |-> IF r.changed /\ ~Truthy(r.mem.default_interpreter) /\ interpreters # << >>
             THEN [r.mem EXCEPT !.default_interpreter = Some(interpreters[1])]
             ELSE r.mem]

\* the venv's interpreter spelled relative to the working directory
VenvRel == <<"v", "/", "b", "/", "p">>

AddPathInputs == { <<" ">> \o SysPy \o <<" ">>, VenvRel, NoPy }

\* interpreter add
CmdInterpreterAdd(paths) ==
    /\ pc = "run"
    /\ LET r == InterpreterAdd(mem, fs, paths) IN
       /\ disk' = IF r.saved THEN r.mem ELSE disk
       /\ Finish([NoCmd EXCEPT !.cmd = "interpreter-add", !.lines = paths])
    /\ UNCHANGED <<proj, fs, inst, tpl, other>>

\* ord(c) for the characters of the model's paths
CharCode(c) ==
    CASE c = " " -> 32 [] c = "." -> 46 [] c = "/" -> 47 [] c = "2" -> 50
      [] c = "b" -> 98 [] c = "p" -> 112 [] c = "u" -> 117 [] c = "v" -> 118
      [] c = "w" -> 119 [] OTHER -> 120

RECURSIVE StrLess(_, _)
\* a < b for str
StrLess(a, b) ==
    IF b = << >> THEN FALSE
    ELSE IF a = << >> THEN TRUE
    ELSE IF Head(a) = Head(b) THEN StrLess(Tail(a), Tail(b))
    ELSE CharCode(Head(a)) < CharCode(Head(b))

RECURSIVE SortedPaths(_)
\* sorted(candidates)
SortedPaths(S) ==
    IF S = {} THEN << >>
    ELSE LET least == CHOOSE x \in S : \A y \in S \ {x} : StrLess(x, y)
         IN <<least>> \o SortedPaths(S \ {least})

\* _scan_unix_python: the files python* of the system directory /u
SystemPythons(f) == {p \in f.files : StartsWith(p, <<"/", "u", "/", "p">>)}

\* detect_interpreters(); versioned: the candidates whose `--version` child
\* printed a version
DetectInterpreters(f, current, versioned) ==
    SortedPaths({c \in SystemPythons(f) \cup {current} :
                    c # << >> /\ IsFile(f, c) /\ c \in versioned})

RECURSIVE SplitComma(_, _)
\* choice.split(","), cur being the part read so far
SplitComma(s, cur) ==
    IF s = << >> THEN <<cur>>
    ELSE IF Head(s) = "," THEN <<cur>> \o SplitComma(Tail(s), << >>)
    ELSE SplitComma(Tail(s), Append(cur, Head(s)))

RECURSIVE AppendAllNew(_, _)
\* for path in paths: if path not in interpreters: interpreters.append(path)
AppendAllNew(interpreters, paths) ==
    IF paths = << >> THEN interpreters
    ELSE AppendAllNew(AppendNew(interpreters, Head(paths)), Tail(paths))

\* cmd_interpreter_detect once `found` is known; mode: the flags given
InterpreterDetect(m, found, mode, choice) ==
    LET interpreters == ListOf(m.interpreters)
        parts == SplitComma(Strip(choice), << >>)
        numbers == [k \in 1..Len(parts) |-> ParseInt(Strip(parts[k]))]
        picked == [k \in 1..Len(parts) |->
                      IF numbers[k] # None /\ 0 <= Val(numbers[k]) - 1
                                           /\ Val(numbers[k]) - 1 < Len(found)
                      THEN Some(found[Val(numbers[k])]) ELSE None]
        chosen == SelectNot(picked, {None})
        same == [rc |-> 0, mem |-> m, saved |-> FALSE]
    IN
    IF found = << >> THEN [same EXCEPT !.rc = 1]
    ELSE IF mode = "add-all"
    THEN [rc |-> 0, saved |-> TRUE,
          mem |-> [m EXCEPT !.interpreters = Some(AppendAllNew(interpreters, found))]]
    ELSE IF mode = "add"
    THEN (IF Strip(choice) = << >> THEN same
          ELSE IF \E k \in 1..Len(parts) : numbers[k] = None THEN [same EXCEPT !.rc = 1]
          ELSE [rc |-> 0, saved |-> TRUE,
                mem |-> [m EXCEPT !.interpreters =
                            Some(AppendAllNew(interpreters,
                                              [k \in 1..Len(chosen) |-> Val(chosen[k])]))]])
    ELSE same

DetectModes == {"list", "add", "add-all"}
DetectChoices == { << >>, <<"1">>, <<"2", ",", " ", "1">>, <<"1", ",", "1">>, <<"1", ",">> }

\* interpreter detect [--add] [--add-all]
CmdInterpreterDetect(mode, choice, versioned) ==
    /\ pc = "run"
    /\ LET found == DetectInterpreters(fs, executable, versioned)
           r == InterpreterDetect(mem, found, mode, choice)
       IN
       /\ disk' = IF r.saved THEN r.mem ELSE disk
       /\ Finish([NoCmd EXCEPT !.cmd = "interpreter-detect", !.rc = r.rc,
                               !.lines = found,
                               !.choice = IF mode = "add" /\ found # << >>
                                          THEN Some(choice) ELSE None])
    /\ UNCHANGED <<proj, fs, inst, tpl, other>>

-----------------------------------------------------------------------------

Next ==
    \/ \E current \in RunningInterpreters : Start(current)
    \/ \E path \in AddInputs : CmdAddInterpreter(path)
    \/ \E a \in ArgInputs, v \in VenvDirInputs, dry \in BOOLEAN :
          \E c \in (IF Truthy(a) THEN {<< >>} ELSE ChoiceInputs),
             env \in (IF dry THEN {DryEnv} ELSE Envs) :
                CmdCreate(a, c, v, dry, env)
    \/ \E v \in RemoveDirInputs, c \in ConfirmInputs, ok \in BOOLEAN :
          \E gone \in (IF ok THEN {{}}
                       ELSE SUBSET {p \in fs.files \cup fs.dirs : InTree(p, v) /\ AbsPath(v) # p}) :
             CmdRemoveVenv(v, c, ok, gone)
    \/ \E choices \in SeqsUpTo(RemoveInputs, MaxChoices) : CmdInterpreterRemove(choices)

Spec == Init /\ [][Next]_vars

\* a venv that is made, a child that fails
RegistryEnvs ==
    { [outcome |-> "ok", made |-> TRUE, activate |-> FALSE],
      [outcome |-> "exit", made |-> FALSE, activate |-> FALSE] }

\* the commands that write the interpreters list
NextRegistry ==
    \/ \E current \in RunningInterpreters : Start(current)
    \/ \E path \in {NoPy, AbsPath(VenvPython(VenvV))} : CmdAddInterpreter(path)
    \/ \E paths \in SeqsUpTo(AddPathInputs, MaxChoices) : CmdInterpreterAdd(paths)
    \/ \E mode \in DetectModes :
          \E c \in (IF mode = "add" THEN DetectChoices ELSE {<< >>}),
             versioned \in SUBSET (SystemPythons(fs) \cup {executable}) :
                CmdInterpreterDetect(mode, c, versioned)
    \/ \E choices \in SeqsUpTo(RemoveInputs, MaxChoices) : CmdInterpreterRemove(choices)
    \/ \E env \in RegistryEnvs : CmdCreate(Some(SysPy), << >>, VenvV, FALSE, env)
    \/ CmdRemoveVenv(VenvV, Yes, TRUE, {})
    \/ \E c \in SetDefaultInputs : CmdSetDefaultInterpreter(c)

SpecRegistry == Init /\ [][NextRegistry]_vars

\* the entries of template n as load_templates() returns them
Entries(n) == ListOf(LoadTemplates(tpl)[n])

\* the template commands, installation, and the commands that resolve an
\* interpreter first
\* what is passed to or typed in a command naming template n: a name that
\* is never bound gets one input of each kind
For(n, inputs) == IF n = "ml" THEN inputs ELSE {CHOOSE x \in inputs : TRUE}

\* a child that fails, a child that cannot be spawned, a venv that is made
CreateEnvs ==
    { [outcome |-> "exit", made |-> FALSE, activate |-> FALSE],
      [outcome |-> "spawnexc", made |-> FALSE, activate |-> FALSE],
      [outcome |-> "ok", made |-> TRUE, activate |-> FALSE] }

NextTemplates ==
    \/ \E current \in RunningInterpreters : Start(current)
    \/ \E n \in TplNames : \E rounds \in For(n, SeqsUpTo(AddRounds, MaxRounds)) :
          n = "ml" /\ CmdTemplateAdd(n, rounds)
    \/ \E n \in TplNames : CmdTemplateRemove(n)
    \/ \E n \in TplNames : \E pk \in For(n, AddPkgInputs) : CmdTemplateAddPackage(n, pk)
    \/ \E n \in TplNames : \E a \in For(n, ArgsStrInputs) :
          CmdTemplateAddPackageComplex(n, <<"numpy">>, a)
    \/ \E n \in TplNames : \E ch \in For(n, SeqsUpTo(RemovePkgInputs, MaxChoices)) :
          CmdTemplateRemovePackage(n, ch)
    \/ \E n \in TplNames, dry \in BOOLEAN :
          \E a \in For(n, {None, Some(SysPy), Some(NoPy)}),
             fail \in (IF dry THEN {NoFail} ELSE Fails(Len(Entries(n)))) :
                CmdInstall(n, a, dry, fail)
    \/ \E n \in TplNames, dry \in BOOLEAN :
          \E a \in For(n, {None, Some(SysPy)}) :
             \E c \in (IF Truthy(a) THEN {<< >>} ELSE For(n, CftChoices)),
                env \in (IF dry THEN {DryEnv} ELSE For(n, CreateEnvs)) :
                   \E fail \in (IF dry \/ ~env.made THEN {NoFail} ELSE Fails(Len(Entries(n)))) :
                      CmdCreateFromTemplate(n, a, c, VenvV, dry, env, fail)
    \/ \E a \in {None, Some(NoPy)}, dry \in BOOLEAN, c \in CftChoices :
          CmdCreate(a, c, VenvV, dry, IF dry THEN DryEnv
                                      ELSE [outcome |-> "spawnexc", made |-> FALSE,
                                            activate |-> FALSE])
    \/ \E c \in SetDefaultInputs : CmdSetDefaultInterpreter(c)
    \/ \E path \in AddInputs : CmdAddInterpreter(path)

SpecTemplates == Init /\ [][NextTemplates]_vars

\* the venv child exits with 0 and leaves bin/python behind
MadeEnv == [outcome |-> "ok", made |-> TRUE, activate |-> FALSE]

\* one line of `template add`: numpy, no special args
NumpyRound == [pkg_line |-> NumpyLine, args_line |-> << >>]

\* every command that reads a line from the terminal, answered at once with
\* the empty line or with one line that selects something
NextPrompts ==
    \/ \E current \in RunningInterpreters : Start(current)
    \/ \E c \in { << >>, <<"1">> } : CmdCreate(None, c, VenvV, FALSE, MadeEnv)
    \/ \E c \in { << >>, <<" ">>, <<"2">> } : CmdSetDefaultInterpreter(c)
    \/ \E paths \in { << >>, <<NoPy>>, <<VenvRel>> } : CmdInterpreterAdd(paths)
    \/ \E choices \in { << >>, << <<"2">> >> } : CmdInterpreterRemove(choices)
    \/ \E c \in { << >>, <<"1">> } :
          CmdInterpreterDetect("add", c, SystemPythons(fs) \cup {executable})
    \/ \E rounds \in { << >>, <<NumpyRound>> } : CmdTemplateAdd("ml", rounds)
    \/ \E ch \in { << >>, << <<"1">> >> } : CmdTemplateRemovePackage("ml", ch)
    \/ CmdTemplateRemove("ml")
    \/ \E c \in { << >>, Yes } : CmdRemoveVenv(VenvV, c, TRUE, {})

SpecPrompts == Init /\ [][NextPrompts]_vars

\* what is typed in `template add`: nothing, two plain packages, a package
\* with special args, a package with special args and then a plain one
RoundTripRounds ==
    { << >>,
      <<[pkg_line |-> NumpyLine \o PandasLine, args_line |-> << >>]>>,
      <<[pkg_line |-> NumpyLine, args_line |-> <<"-", "U">>]>>,
      <<[pkg_line |-> NumpyLine, args_line |-> <<"-", "U">>],
        [pkg_line |-> PandasLine, args_line |-> << >>]>> }

\* the commands that write templates.json, for both template names
NextRoundTrip ==
    \/ \E current \in RunningInterpreters : Start(current)
    \/ \E n \in TplNames, rounds \in RoundTripRounds : CmdTemplateAdd(n, rounds)
    \/ \E n \in TplNames : CmdTemplateRemove(n)
    \/ \E n \in TplNames : CmdTemplateAddPackage(n, <<"pandas", "numpy">>)
    \/ \E n \in TplNames, a \in ArgsStrInputs :
          CmdTemplateAddPackageComplex(n, <<"numpy", "pandas">>, a)
    \/ \E n \in TplNames : CmdTemplateRemovePackage(n, << <<" ", "1">> >>)

SpecRoundTrip == Init /\ [][NextRoundTrip]_vars

\* two invocations of add-interpreter in two processes, each with a path of
\* its own (the first /u/x or v2, the second v/b/p or v); nothing keeps one
\* from loading or saving while the other runs.  Before the two, either
\* process may have run add-interpreter any number of times alone: a
\* process starts when it has not run yet or the other one never started.
NextConcurrent ==
    \/ \E current \in RunningInterpreters :
          /\ last.cmd = "none" \/ (other.pc = "idle" /\ other.last.cmd = "none")
          /\ Start(current)
    \/ \E path \in {NoPy, VenvV2} : CmdAddInterpreter(path)
    \/ \E current \in RunningInterpreters :
          /\ other.last.cmd = "none" \/ (pc = "idle" /\ last.cmd = "none")
          /\ OtherStart(current)
    \/ \E path \in {VenvRel, VenvV} : OtherAddInterpreter(path)

SpecConcurrent == Init /\ [][NextConcurrent]_vars

-----------------------------------------------------------------------------
(* Properties *)

\* an optional path that is set and lies in the directory tree of d
InsideOpt(o, d) == Truthy(o) /\ InTree(Val(o), d)

CreateRan == last.cmd = "create-venv" /\ Truthy(last.interp)
RemoveDone == last.cmd = "remove-venv" /\ last.rc = 0
PreList == ListOf(last.pre.disk.interpreters)

\* C1 as the spec states it: a given explicit interpreter is returned
\* verbatim, and with none given and a project default set, the resolver
\* returns the project default whatever is typed at a prompt.
C1_ProjectDefaultAlwaysReturned ==
    last.cmd = "create-venv" =>
        /\ Truthy(last.arg) => last.interp = last.arg
        /\ ~Truthy(last.arg) /\ Truthy(last.pre.proj) => last.interp = last.pre.proj

\* C1 as the code has it: a given (non-empty) explicit interpreter is
\* returned verbatim without a prompt.  With none given and a project
\* default set, the resolver prompts: an empty line or "d"/"D" returns the
\* project default (never the global one), a number in range returns the
\* registered interpreter at that position, anything else returns None.
C1_ResolverPrecedence ==
    last.cmd = "create-venv" =>
        /\ Truthy(last.arg) => last.interp = last.arg /\ last.choice = None
        /\ ~Truthy(last.arg) /\ Truthy(last.pre.proj) =>
              /\ last.choice # None
              /\ LET typed == Strip(Val(last.choice))
                     n == ParseInt(typed)
                 IN
                 IF typed = << >> \/ Upper(typed) = <<"D">>
                 THEN last.interp = last.pre.proj
                 ELSE IF n # None /\ Val(n) >= 1 /\ Val(n) <= Len(PreList)
                 THEN last.interp = Some(PreList[Val(n)])
                 ELSE last.interp = None

\* C1 witness: no explicit interpreter, an empty line typed, and what was
\* resolved is the project default although the global default differs.
C1_Witness ==
    /\ last.cmd = "create-venv"
    /\ last.arg = None
    /\ last.choice = Some(<< >>)
    /\ Truthy(last.pre.proj)
    /\ Truthy(last.pre.disk.default_interpreter)
    /\ last.pre.proj # last.pre.disk.default_interpreter
    /\ last.interp = last.pre.proj

\* the position in inst.ended of the first child that did not exit with 0
FirstFailure == CHOOSE k \in 1..Len(inst.ended) :
                    /\ inst.ended[k].how # "ok"
                    /\ \A j \in 1..(k - 1) : inst.ended[j].how = "ok"

\* C2: installation runs the entries in list order and stops at the first
\* failing one (non-zero exit code, or an exception while spawning or
\* reading): no later entry is invoked, failure is returned, the error text
\* is that of the failing entry alone, and what earlier entries installed
\* stays installed.
C2_AbortsAtFirstFailure ==
    (inst.pc = "done" /\ \E k \in 1..Len(inst.ended) : inst.ended[k].how # "ok") =>
        LET k == FirstFailure
            i == inst.ended[k].i
        IN
        /\ \A a, b \in 1..Len(inst.spawned) : a < b => inst.spawned[a].i < inst.spawned[b].i
        /\ \A a \in 1..Len(inst.spawned) : inst.spawned[a].i <= i
        /\ inst.ret # None
        /\ ~Val(inst.ret).ok
        /\ Val(inst.ret).stderr # << >>
        /\ \A m \in 1..Len(Val(inst.ret).stderr) : Val(inst.ret).stderr[m].i = i
        /\ \A j \in 1..(k - 1) :
              \A x \in 1..Len(PkgList(inst.packages[inst.ended[j].i])) :
                  PkgList(inst.packages[inst.ended[j].i])[x] \in inst.installed

\* C3: with dry_run, install_packages spawns no child whatever the list and
\* whether or not the interpreter exists, and returns success with an
\* empty error text.
C3_DryRunInstallSpawnsNothing ==
    inst.dry_run =>
        /\ inst.spawned = << >>
        /\ ~inst.raised
        /\ inst.pc = "done" =>
              /\ inst.ret # None
              /\ Val(inst.ret).ok
              /\ Val(inst.ret).stderr = << >>
              /\ inst.i = Len(inst.packages) + 1

\* C3 witness: a finished dry run over two entries or more, at an
\* interpreter path where nothing exists.
C3_Witness ==
    /\ inst.pc = "done"
    /\ inst.dry_run
    /\ ~Exists(fs, inst.interpreter)
    /\ Len(inst.packages) >= 2
    /\ Len(inst.all_stdout) >= 2

\* C4: create_venv with dry_run returns success, spawns no child, creates
\* no directory and leaves interpreters.json and the project config as
\* they were.
C4_DryRunCreateChangesNothing ==
    (CreateRan /\ last.dry) =>
        /\ last.rc = 0
        /\ ~last.raised
        /\ last.spawned = << >>
        /\ fs = last.pre.fs
        /\ disk = last.pre.disk
        /\ proj = last.pre.proj

\* C4 witness: a dry run for a venv directory that does not exist, with an
\* interpreter path at which nothing exists.
C4_Witness ==
    /\ CreateRan
    /\ last.dry
    /\ last.interp = Some(NoPy)
    /\ ~Exists(fs, last.venv_dir)
    /\ last.rc = 0

\* the venv interpreter of the last create-venv
LastVenvPython == AbsPath(VenvPython(last.venv_dir))

\* C5: after a successful real create_venv whose interpreter exists on
\* disk, that interpreter's absolute path is in the saved interpreters list
\* (put at the front if it was absent, the list otherwise as before), the
\* project default is that path, and the global default is what it was.
C5_CreateRegistersVenv ==
    (CreateRan /\ ~last.dry /\ last.rc = 0 /\ Exists(fs, LastVenvPython)) =>
        /\ Contains(ListOf(disk.interpreters), LastVenvPython)
        /\ ListOf(disk.interpreters) =
              IF Contains(PreList, LastVenvPython) THEN PreList
              ELSE <<LastVenvPython>> \o PreList
        /\ proj = Some(LastVenvPython)
        /\ disk.default_interpreter = last.pre.disk.default_interpreter

\* C5 witness: a venv was created whose interpreter was not registered
\* before; it now heads the list and is not the global default.
C5_Witness ==
    /\ CreateRan /\ ~last.dry /\ last.rc = 0
    /\ Exists(fs, LastVenvPython)
    /\ ~Contains(PreList, LastVenvPython)
    /\ PreList # << >>
    /\ ListOf(disk.interpreters)[1] = LastVenvPython
    /\ disk.default_interpreter # Some(LastVenvPython)

\* C6: after a confirmed, successful remove-venv the saved global default
\* does not lie inside venv_dir; a default that did is now one of the
\* interpreters still registered, or None.
C6_DefaultLeavesRemovedVenv ==
    RemoveDone =>
        /\ ~InsideOpt(disk.default_interpreter, last.venv_dir)
        /\ InsideOpt(last.pre.disk.default_interpreter, last.venv_dir) =>
              \/ disk.default_interpreter = None
              \/ Contains(ListOf(disk.interpreters), Val(disk.default_interpreter))

\* C6 witness: the global default pointed into the removed venv and was
\* moved to another registered interpreter.
C6_Witness ==
    /\ RemoveDone
    /\ InsideOpt(last.pre.disk.default_interpreter, last.venv_dir)
    /\ Truthy(disk.default_interpreter)

\* C7: after a confirmed, successful remove-venv the project default does
\* not point inside the deleted tree.
C7_ProjectDefaultLeavesRemovedVenv ==
    RemoveDone => ~InsideOpt(proj, last.venv_dir)

\* C7 witness: the project default pointed into the removed venv and is
\* cleared.
C7_Witness ==
    /\ RemoveDone
    /\ InsideOpt(last.pre.proj, last.venv_dir)
    /\ proj = None

Untouched == fs = last.pre.fs /\ disk = last.pre.disk /\ proj = last.pre.proj

\* C8 as the spec states it: remove-venv deletes and updates only when the
\* line typed is exactly "yes"; any other line changes nothing.
C8_OnlyLiteralYes ==
    (last.cmd = "remove-venv" /\ last.confirm # Yes) => Untouched

\* C8 as the code has it: remove-venv deletes and updates only when the
\* line typed, with surrounding blanks removed and in lower case, is "yes";
\* any other line changes nothing and the command ends with code 1.
C8_OnlyYesAfterStripLower ==
    (last.cmd = "remove-venv" /\ Exists(last.pre.fs, last.venv_dir)
        /\ Lower(Strip(last.confirm)) # Yes) => (Untouched /\ last.rc = 1)

\* C8 witness: "y" typed for a venv that exists and is registered.
C8_Witness ==
    /\ last.cmd = "remove-venv"
    /\ last.confirm = <<"y">>
    /\ Exists(fs, last.venv_dir)
    /\ \E i \in 1..Len(PreList) : InTree(PreList[i], last.venv_dir)
    /\ last.rc = 1

RECURSIVE Outside(_, _)
\* the entries of list s that do not lie in the directory tree of d
Outside(s, d) ==
    IF s = << >> THEN << >>
    ELSE IF InTree(Head(s), d) THEN Outside(Tail(s), d)
         ELSE <<Head(s)>> \o Outside(Tail(s), d)

\* C9: remove-venv takes from the interpreters list exactly the entries
\* that lie in the tree of venv_dir: the interpreters outside it, one in a
\* sibling directory whose name starts with venv_dir's name included, stay
\* in their order, and a project default outside venv_dir is kept.
C9_RemovesExactlyTheVenvsEntries ==
    RemoveDone =>
        /\ ListOf(disk.interpreters) = Outside(PreList, last.venv_dir)
        /\ (Truthy(last.pre.proj) /\ ~InsideOpt(last.pre.proj, last.venv_dir)) =>
              proj = last.pre.proj

\* C10: when shutil.rmtree fails, remove-venv reports failure and leaves
\* interpreters.json and the project config as they were.
C10_FailedDeletionKeepsRegistry ==
    (last.cmd = "remove-venv" /\ last.rmtree = "failed") =>
        /\ last.rc = 1
        /\ disk = last.pre.disk
        /\ proj = last.pre.proj

\* C10 witness: the deletion failed half way (the venv's interpreter is
\* gone) while the registry and the project default still point into it.
C10_Witness ==
    /\ last.cmd = "remove-venv"
    /\ last.rmtree = "failed"
    /\ fs # last.pre.fs
    /\ InsideOpt(proj, last.venv_dir)
    /\ \E i \in 1..Len(PreList) : InTree(PreList[i], last.venv_dir)

\* C11: a real create_venv lets no spawn or I/O exception out: whatever the
\* interpreter path (one at which nothing exists included), a creation whose
\* child could not be spawned or read ends without an exception, reports
\* failure, and interpreters.json and the project config are as before.
C11_CreateNeverRaises ==
    (CreateRan /\ ~last.dry) =>
        /\ ~last.raised
        /\ ~Exists(last.pre.fs, Val(last.interp)) =>
              /\ last.rc = 1
              /\ disk = last.pre.disk
              /\ proj = last.pre.proj

\* the entries whose child was spawned and did not exit with 0
FailedEntries == {k \in 1..Len(inst.ended) : inst.ended[k].how # "ok"}

\* the entries i whose output [i, "out"] is in the stdout list s
OutputsIn(s) == {s[k].i : k \in 1..Len(s)}

\* C12: when a real install fails at an entry (non-zero exit code, or an
\* exception while spawning or reading), install_packages returns, and the
\* stdout it returns holds the output of every entry attempted so far, the
\* failing entry's included.
C12_FailureReturnsAllOutput ==
    (inst.pc = "done" /\ ~inst.dry_run /\ FailedEntries # {}) =>
        /\ inst.ret # None
        /\ {inst.ended[k].i : k \in 1..Len(inst.ended)} \subseteq OutputsIn(Val(inst.ret).stdout)

\* `template add ml` answered with the one line "numpy pandas", no special
\* args, then the empty line
ScenarioRounds == <<[pkg_line |-> NumpyLine \o PandasLine, args_line |-> << >>]>>

\* `install ml --dry-run` ended, the packages going to /u/p, template ml
\* being what `template add ml` stored for ScenarioRounds
ScenarioInstall ==
    /\ last.cmd = "install"
    /\ last.name = "ml"
    /\ last.dry
    /\ last.interp = Some(SysPy)
    /\ Entries("ml") = CollectEntries(ScenarioRounds)
    /\ tpl # None /\ LoadTemplates(tpl)["ml"] # None

\* a line "DRY RUN: would run: [/u/p, -m, pip, install, <packages>]"
DryLine(i, packages) ==
    [i |-> i, kind |-> "dry",
     cmd |-> [exe |-> SysPy, argv |-> <<"-m", "pip", "install">> \o packages]]

InstallRan == last.cmd = "install" /\ LoadTemplates(last.pre.tpl)[last.name] # None

\* C14: install takes the first that is set of --interpreter, the project
\* default, the global default and the interpreter running the tool; it
\* asks nothing and never ends for want of an interpreter.
C14_InstallInterpreterChain ==
    InstallRan =>
        /\ last.choice = None
        /\ last.rc # 2
        /\ Truthy(last.interp)
        /\ IF Truthy(last.arg) THEN last.interp = last.arg
           ELSE IF Truthy(last.pre.proj) THEN last.interp = last.pre.proj
           ELSE IF Truthy(last.pre.disk.default_interpreter)
                THEN last.interp = last.pre.disk.default_interpreter
           ELSE Val(last.interp) \in last.pre.fs.files

\* C14 witness: no --interpreter, the project default and the global
\* default both set and different: the packages went to the project default.
C14_Witness ==
    /\ InstallRan
    /\ last.arg = None
    /\ Truthy(last.pre.proj)
    /\ Truthy(last.pre.disk.default_interpreter)
    /\ last.pre.proj # last.pre.disk.default_interpreter
    /\ last.interp = last.pre.proj
    /\ last.rc = 0

\* create-venv or create-from-template came to the resolver (the template
\* was found) and the resolver returned no interpreter
NothingChosen ==
    /\ \/ last.cmd = "create-venv"
       \/ last.cmd = "create-from-template" /\ LoadTemplates(last.pre.tpl)[last.name] # None
    /\ ~Truthy(last.interp)

\* C15: when the resolver returns no interpreter, create-venv and
\* create-from-template end with exit code 2: no child is spawned, and
\* interpreters.json, the project config, templates.json and the file
\* system are as before.
C15_NoInterpreterStops ==
    NothingChosen =>
        /\ last.rc = 2
        /\ ~last.raised
        /\ last.spawned = << >>
        /\ last.out = << >>
        /\ disk = last.pre.disk
        /\ proj = last.pre.proj
        /\ tpl = last.pre.tpl
        /\ fs = last.pre.fs

\* C15 witness: a real create-from-template of a template holding entries,
\* with defaults configured, answered with a line that selects nothing.
C15_Witness ==
    /\ NothingChosen
    /\ last.cmd = "create-from-template"
    /\ ~last.dry
    /\ last.choice = Some(<<"x">>)
    /\ Entries(last.name) # << >>
    /\ Truthy(last.pre.disk.default_interpreter)
    /\ last.rc = 2

\* no element of the list s occurs in it twice
NoDup(s) == \A i, j \in 1..Len(s) : s[i] = s[j] => i = j

\* the commands that only append to the interpreters list
Appending == {"add-interpreter", "interpreter-add", "interpreter-detect"}

\* C16: whatever registry-writing commands ran, no path is twice in the
\* interpreters list (in interpreters.json and in the running process's
\* object); a path that is added again stays where its first insertion put
\* it: add-interpreter with a registered path leaves the list as it was,
\* and the appending commands keep the list they found as the beginning of
\* the new one.
C16_NoPathTwice ==
    /\ NoDup(ListOf(disk.interpreters))
    /\ NoDup(ListOf(mem.interpreters))
    /\ (last.cmd = "add-interpreter" /\ Contains(PreList, Val(last.arg))) =>
          ListOf(disk.interpreters) = PreList
    /\ last.cmd \in Appending => StartsWith(ListOf(disk.interpreters), PreList)

\* C16 witness: add-interpreter for a path that was registered already, not
\* at the head of a list of three or more; the list is unchanged.
C16_Witness ==
    /\ last.cmd = "add-interpreter"
    /\ Len(PreList) >= 3
    /\ Contains(Tail(PreList), Val(last.arg))
    /\ ListOf(disk.interpreters) = PreList

\* the templates load_templates() returned to the last command
PreTemplates == LoadTemplates(last.pre.tpl)

\* C17: `template add <name>` for a name that is bound ends with exit code
\* 2 and templates.json, the entries of that template included, is as
\* before.
C17_AddExistingRefused ==
    (last.cmd = "template-add" /\ PreTemplates[last.name] # None) =>
        /\ last.rc = 2
        /\ tpl = last.pre.tpl
        /\ Entries(last.name) = ListOf(PreTemplates[last.name])

\* C17 witness: the template held entries, and packages were typed that
\* would have made other entries of it.
C17_Witness ==
    /\ last.cmd = "template-add"
    /\ PreTemplates[last.name] # None
    /\ Entries(last.name) # << >>
    /\ CollectEntries(last.lines) # << >>
    /\ CollectEntries(last.lines) # Entries(last.name)
    /\ last.rc = 2

\* the template commands that need their template to exist
OnExisting ==
    {"template-remove", "template-add-pkg", "template-add-pkg-complex", "template-remove-pkg"}

\* C18: template remove, add-pkg, add-pkg-complex and remove-pkg for a name
\* that is not bound end with exit code 2 and templates.json is as before.
C18_AbsentTemplateRefused ==
    (last.cmd \in OnExisting /\ PreTemplates[last.name] = None) =>
        /\ last.rc = 2
        /\ tpl = last.pre.tpl

\* C18 witness: add-pkg for a name that is not bound while another template
\* is stored.
C18_Witness ==
    /\ last.cmd = "template-add-pkg"
    /\ PreTemplates[last.name] = None
    /\ \E n \in TplNames : Entries(n) # << >>
    /\ last.pkgs # << >>
    /\ last.rc = 2

\* how often package name p is in one entry: a plain entry is its name, a
\* compound entry holds its packages
OccursIn(entry, p) ==
    IF entry.kind = "str" THEN (IF entry.name = p THEN 1 ELSE 0)
    ELSE Cardinality({k \in 1..Len(ListOf(entry.packages)) : ListOf(entry.packages)[k] = p})

RECURSIVE Occurrences(_, _)
\* how often package name p is in the entries of a template
Occurrences(entries, p) ==
    IF entries = << >> THEN 0
    ELSE OccursIn(Head(entries), p) + Occurrences(Tail(entries), p)

\* add-pkg ran on a template that exists
AddPkgRan == last.cmd = "template-add-pkg" /\ PreTemplates[last.name] # None

\* C19: add-pkg appends the package names that are not in the template and
\* skips those that are, whether they are there as plain entries or inside
\* compound entries: a name that was in the template is in it as often as
\* before, a name that was not is in it afterwards.
C19_AddPkgSkipsPresent ==
    AddPkgRan =>
        \A k \in 1..Len(last.pkgs) :
            LET p == last.pkgs[k]
                before == Occurrences(ListOf(PreTemplates[last.name]), p)
            IN Occurrences(Entries(last.name), p) = (IF before > 0 THEN before ELSE 1)

\* stored state is what it was when the last command began
StoredStateKept ==
    /\ disk = last.pre.disk
    /\ proj = last.pre.proj
    /\ tpl = last.pre.tpl

\* the last command named a template that is not bound
UnknownTemplate ==
    /\ last.cmd \in OnExisting \cup {"install", "create-from-template"}
    /\ PreTemplates[last.name] = None

\* `template add` named a template that is bound
DuplicateTemplate == last.cmd = "template-add" /\ PreTemplates[last.name] # None

\* a typed line is a number that is no position of a list of n entries
OutOfRange(line, n) ==
    ParseInt(Strip(line)) # None /\ ~(1 <= Val(ParseInt(Strip(line))) /\ Val(ParseInt(Strip(line))) <= n)

\* remove-pkg ran on a template that exists, and every line typed before
\* the closing empty line was an index out of range
OnlyBadIndexes ==
    /\ last.cmd = "template-remove-pkg"
    /\ PreTemplates[last.name] # None
    /\ last.lines # << >>
    /\ \A k \in 1..Len(last.lines) :
          OutOfRange(last.lines[k], Len(ListOf(PreTemplates[last.name])))

\* C20 as the spec states it: an unknown template name, a duplicate
\* template name, an out-of-range index in remove-pkg and an unset
\* interpreter each end the command with exit code 2, stored state
\* unchanged.
C20_ValidationErrorsExitTwo ==
    (UnknownTemplate \/ DuplicateTemplate \/ OnlyBadIndexes \/ NothingChosen) =>
        last.rc = 2 /\ StoredStateKept

\* C20 as the code has it: an unknown template name, a duplicate template
\* name and an unset interpreter end the command with exit code 2; an
\* out-of-range index in remove-pkg is reported and the prompt comes again,
\* nothing is removed, and the command ends with exit code 0 at the empty
\* line.  No command that ends with exit code 2 changed stored state.
C20_ValidationErrors ==
    /\ (UnknownTemplate \/ DuplicateTemplate \/ NothingChosen) => last.rc = 2
    /\ OnlyBadIndexes => last.rc = 0 /\ StoredStateKept
    /\ last.rc = 2 => StoredStateKept

\* C20 witness: remove-pkg on a template holding entries, answered with
\* two indexes out of range, below and above.
C20_Witness ==
    /\ OnlyBadIndexes
    /\ Len(last.lines) = 2
    /\ last.lines[1] # last.lines[2]
    /\ Entries(last.name) # << >>
    /\ last.rc = 0
    /\ StoredStateKept

\* the file system, interpreters.json, the project config and
\* templates.json are what they were when the last command began
NothingChanged == StoredStateKept /\ fs = last.pre.fs

\* the resolver prompted and the empty line was typed
EmptyAtResolver ==
    /\ last.cmd \in {"create-venv", "create-from-template"}
    /\ last.choice # None
    /\ Strip(Val(last.choice)) = << >>

\* a command other than the resolver's prompted, and the first line typed
\* was the empty line
EmptyAtPrompt ==
    \/ /\ last.cmd = "set-default-interpreter"
       /\ PreList # << >>
       /\ Strip(Val(last.choice)) = << >>
    \/ /\ last.cmd \in {"interpreter-add", "interpreter-remove"}
       /\ PreList # << >>
       /\ last.lines = << >>
    \/ /\ last.cmd = "interpreter-detect"
       /\ last.choice # None
       /\ Strip(Val(last.choice)) = << >>
    \/ /\ last.cmd = "template-add"
       /\ PreTemplates[last.name] = None
       /\ last.lines = << >>
    \/ /\ last.cmd = "template-remove-pkg"
       /\ PreTemplates[last.name] # None
       /\ last.lines = << >>
    \/ /\ last.cmd = "remove-venv"
       /\ Exists(last.pre.fs, last.venv_dir)
       /\ Strip(last.confirm) = << >>

\* C21: the empty line at an interactive prompt is a cancel and no error.
\* At the resolver's prompt it selects the default in force (the project
\* default, else the global one); at the prompt of set-default-interpreter,
\* interpreter add, interpreter remove, detect --add, template add,
\* template remove-pkg and remove-venv the command ends with exit code 0
\* and the file system, interpreters.json, the project config and
\* templates.json are as before.
C21_EmptyInputCancels ==
    /\ EmptyAtResolver => last.interp = EffectiveDefault(last.pre.proj, last.pre.disk)
    /\ EmptyAtPrompt => last.rc = 0 /\ NothingChanged

\* what load_templates() returns now
Reloaded == LoadTemplates(tpl)

\* the mapping the last command handed to save_templates, from what it
\* loaded and what it was given
HandedToSave ==
    CASE last.cmd = "template-add" ->
           [PreTemplates EXCEPT ![last.name] = Some(CollectEntries(last.lines))]
      [] last.cmd = "template-remove" ->
           [PreTemplates EXCEPT ![last.name] = None]
      [] last.cmd = "template-add-pkg" ->
           [PreTemplates EXCEPT
              ![last.name] = Some(AppendMissing(Val(PreTemplates[last.name]), last.pkgs))]
      [] OTHER ->
           [PreTemplates EXCEPT
              ![last.name] =
                 Some(Append(Val(PreTemplates[last.name]),
                             DictEntry(Some(last.pkgs), None,
                                       Some(IF Truthy(last.arg) THEN Split(Val(last.arg))
                                            ELSE << >>))))]

\* the commands that call save_templates once, with a mapping built from
\* their arguments
SavingOnce ==
    {"template-add", "template-remove", "template-add-pkg", "template-add-pkg-complex"}

\* C22: what save_templates wrote, load_templates reads back as the same
\* mapping: the same template names, each with the same entries in the same
\* order, a plain entry being the same string and a compound entry having
\* the same packages list and the same args list in the same order.
C22_SaveLoadRoundTrip ==
    /\ LoadTemplates(SaveTemplates(Reloaded)) = Reloaded
    /\ (last.cmd \in SavingOnce /\ last.rc = 0) => Reloaded = HandedToSave

\* C22 witness: a command saved a registry of two templates, the one it
\* wrote holding a compound entry of two packages and a plain entry, the
\* other one holding entries too.
C22_Witness ==
    /\ last.cmd \in SavingOnce /\ last.rc = 0
    /\ \E i, j \in 1..Len(Entries(last.name)) :
          /\ Entries(last.name)[i].kind = "str"
          /\ Entries(last.name)[j].kind = "dict"
          /\ Len(Val(Entries(last.name)[j].packages)) = 2
          /\ Val(Entries(last.name)[j].args) # << >>
    /\ \E n \in TplNames \ {last.name} : Entries(n) # << >>

\* interpreters.json as the starting process found it
Found == last.pre.disk

\* C23: a process that finds no default in interpreters.json (the file is
\* absent, or the field is empty) and runs under an interpreter that is a
\* file makes that interpreter the default, puts it at the front of the
\* interpreters list unless the list holds it, and writes the file at once;
\* a process that finds a default leaves the registry and the file as they
\* are.
C23_SeedingOnLoad ==
    pc = "run" =>
        IF ~Truthy(Found.default_interpreter) /\ IsFile(fs, executable)
        THEN /\ mem.default_interpreter = Some(executable)
             /\ ListOf(mem.interpreters) =
                   IF Contains(ListOf(Found.interpreters), executable)
                   THEN ListOf(Found.interpreters)
                   ELSE <<executable>> \o ListOf(Found.interpreters)
             /\ disk = mem
        ELSE mem = Found /\ disk = Found

\* C23 witness: the file was there with an interpreters list emptied by
\* earlier commands and no default, and the tool runs under a venv's
\* interpreter: that one is now the default, listed and saved.
C23_Witness ==
    /\ pc = "run"
    /\ Found.interpreters = Some(<< >>)
    /\ ~Truthy(Found.default_interpreter)
    /\ executable # SysPy
    /\ disk = [interpreters |-> Some(<<executable>>), default_interpreter |-> Some(executable)]


\* the default of registry r is unset or one of its interpreters
DefaultRegistered(r) ==
    ~Truthy(r.default_interpreter)
    \/ Contains(ListOf(r.interpreters), Val(r.default_interpreter))

\* C24: whatever commands ran (process starts with their seeding,
\* add-interpreter, interpreter add, interpreter remove,
\* set-default-interpreter, interpreter detect with --add and --add-all,
\* create-venv, remove-venv), the default of interpreters.json, and of the
\* running process's registry object, is unset or in the interpreters list.
C24_DefaultIsRegistered ==
    DefaultRegistered(disk) /\ DefaultRegistered(mem)

\* C24 witness: interpreter remove took the default out of a list that had
\* been given a default by set-default-interpreter or by seeding, and the
\* default moved to an interpreter that is still listed.
C24_Witness ==
    /\ last.cmd = "interpreter-remove"
    /\ Truthy(last.pre.disk.default_interpreter)
    /\ ~Contains(ListOf(disk.interpreters), Val(last.pre.disk.default_interpreter))
    /\ Truthy(disk.default_interpreter)
    /\ Len(ListOf(disk.interpreters)) >= 2

\* create-from-template ended
CftRan == last.cmd = "create-from-template"

\* the children create_venv spawns for the last command when the venv
\* child exits with 0: the venv child, then pip for pynstal when the venv
\* has its interpreter
CreationChildren ==
    <<VenvCmd(Val(last.interp), last.venv_dir)>>
    \o (IF Exists(fs, LastVenvPython) THEN <<PipPynstalCmd(LastVenvPython)>> ELSE << >>)

\* C25: create-from-template looks the template up, then resolves the
\* interpreter, then creates the venv, then installs.  An unknown template
\* ends the command with code 2 before anything is asked, spawned or
\* written.  Without an interpreter nothing is created.  The venv child is
\* the first child spawned; when creation fails the command ends with code
\* 1 and that child is the only one; pip runs for the template's entries
\* only after creation succeeded, in the venv's interpreter, after the
\* children of the creation.
C25_CreateFromTemplateOrder ==
    CftRan =>
        /\ PreTemplates[last.name] = None =>
              /\ last.rc = 2 /\ last.choice = None /\ last.interp = None
              /\ last.created = "none" /\ last.spawned = << >> /\ NothingChanged
        /\ ~Truthy(last.interp) => last.created = "none" /\ last.spawned = << >>
        /\ last.created # "none" => PreTemplates[last.name] # None /\ Truthy(last.interp)
        /\ last.created = "failed" =>
              /\ last.rc = 1
              /\ last.spawned = <<VenvCmd(Val(last.interp), last.venv_dir)>>
              /\ last.out = << >>
        /\ (last.created = "ok" /\ last.dry) => last.spawned = << >>
        /\ (last.created = "ok" /\ ~last.dry) =>
              /\ StartsWith(last.spawned, CreationChildren)
              /\ \A k \in (Len(CreationChildren) + 1)..Len(last.spawned) :
                    last.spawned[k].cmd.exe = LastVenvPython

\* C25 witness: the venv and its interpreter were there from an earlier
\* creation, the venv child of this command failed, and the template holds
\* entries: no pip ran.
C25_Witness ==
    /\ CftRan
    /\ last.created = "failed"
    /\ Exists(last.pre.fs, LastVenvPython)
    /\ Entries(last.name) # << >>
    /\ Len(last.spawned) = 1
    /\ last.rc = 1

\* both invocations of add-interpreter are over, each with a path of its own
BothAdded ==
    /\ pc = "idle" /\ last.cmd = "add-interpreter"
    /\ other.pc = "idle" /\ other.last.cmd = "add-interpreter"
    /\ last.arg # other.last.arg

\* interpreters.json holds both added paths
BothKept ==
    /\ Contains(ListOf(disk.interpreters), Val(last.arg))
    /\ Contains(ListOf(disk.interpreters), Val(other.last.arg))

\* one of the two invocations loaded the file when the other one's path
\* was in it: it ran after the other
OneAfterTheOther ==
    \/ Contains(ListOf(last.loaded.interpreters), Val(other.last.arg))
    \/ Contains(ListOf(other.last.loaded.interpreters), Val(last.arg))

\* C26: when two processes have each loaded interpreters.json, added a
\* path of their own and saved, the file holds both paths exactly when one
\* of them loaded the file with the other's path in it (the invocations
\* ran one after the other); when each loaded before the other saved, the
\* later save replaced the file and the path of the earlier one is lost.
C26_LostUpdateWhenInterleaved ==
    BothAdded => (BothKept <=> OneAfterTheOther)

\* C26 witness: both invocations are over, each loaded the file before the
\* other saved, and the path the first process added is not in
\* interpreters.json while the second one's is.
C26_Witness ==
    /\ BothAdded
    /\ ~OneAfterTheOther
    /\ ~Contains(ListOf(disk.interpreters), Val(last.arg))
    /\ Contains(ListOf(disk.interpreters), Val(other.last.arg))

====
